---- MODULE Spec2Model ----
(***************************************************************************)
(* Anti-abuse and scoring core of the airfeeld backend:                    *)
(*   - ProofOfWorkService.verify_solution / create_challenge               *)
(*   - RateLimitService.check_rate_limit                                   *)
(*   - GameService.start_round / submit_guess, GameRound.record_guess      *)
(* Every request runs in its own SQLAlchemy session: rows are SELECTed     *)
(* into the session, changed in memory, flushed, and made visible to the   *)
(* other requests at commit; an exception rolls the session back.          *)
(* Time is a discrete clock; every datetime.now() of the code is a read of *)
(* that clock, and the clock may advance between any two steps.            *)
(***************************************************************************)
EXTENDS Integers, Sequences, FiniteSets, TLC

(* ----------------------------- bounds ---------------------------------- *)
NumProcs == 2
PowMaxTime == 3
TicksPerSecond == 2
MaxChallenges == 1
MaxVerifyCalls == 2
RlMaxTime == 4
RlLimit == 2
RlWindowSeconds == 1
MaxRlCalls == 4
MaxBurstCalls == 5
MaxRemCalls == 2
MaxRemRlCalls == 2
MaxStoredCount == 3
RlGraceSeconds == 1
PowRetentionSeconds == 1
PowCleanMaxAge == 6
MaxStoredChallenges == 2
MaxPowCleanCalls == 2
MaxPowCleanVerifyCalls == 1
CleanMaxAge == 5
MaxCleanCalls == 1
MaxCleanRlCalls == 2
RoundMaxTime == 3
MaxRounds == 1
MaxGuesses == 2
MaxGuessCalls == 3
MaxCompleteCalls == 2
MaxGameCalls == 3
RecentRoundsLimit == 1
MaxStartPhotos == 2
MaxStoredRounds == 2
MaxStartCalls == 2
HashHexLen == 3
MaxStoredPhotos == 2
MaxUploadCalls == 2
MaxScoreLen == 5
MaxSuffixLen == 2
MaxTextLen == 3
MaxLevLen == 4
MaxFilterCalls == 3
MaxDistanceKm == 5001
IssueMaxSteps == 2
MaxConfigIssued == 2
MaxIssued == 12

Procs == 1..NumProcs

(* Python's None, for string-valued and for time-valued columns *)
NoneStr == "<None>"
NoneTime == -1

Max(a, b) == IF a >= b THEN a ELSE b
Min(a, b) == IF a <= b THEN a ELSE b

(* ------------------------- hashing primitives -------------------------- *)
ClientIps == {"192.168.1.1", "10.0.0.1"}

(* hash_ip: SHA-256 hex digest of the address (real digests of the two     *)
(* model addresses)                                                        *)
hash_ip(ip_address) ==
  CASE ip_address = "192.168.1.1" ->
         "c5eb5a4cc76a5cdb16e79864b9ccd26c3553f0c396d0a21bafb7be71c1efcd8c"
    [] ip_address = "10.0.0.1" ->
         "f5047344122f0dee9974ba6761e61c6b8649e1f3968d13a635ebbf7be53a3a0d"

(* secrets.token_hex(16): the model draws the one value below *)
ChallengeNonces == {"00112233445566778899aabbccddeeff"}

(* solution nonces a client may send *)
SolutionNonces == {"79", "60803"}

(* hashlib.sha256((challenge_nonce + solution_nonce).encode()).hexdigest() *)
(* first eight hex characters of the real digests                          *)
Sha256HexPrefix(challenge_nonce, solution_nonce) ==
  CASE solution_nonce = "79"    -> <<"0","0","9","6","7","a","5","9">>
    [] solution_nonce = "60803" -> <<"0","0","0","0","1","2","1","4">>

(* str.startswith("0" * difficulty) *)
StartsWithZeros(hex, difficulty) ==
  /\ difficulty <= Len(hex)
  /\ \A i \in 1..difficulty : hex[i] = "0"

(* verify_pow_hash *)
verify_pow_hash(challenge_nonce, solution_nonce, difficulty) ==
  StartsWithZeros(Sha256HexPrefix(challenge_nonce, solution_nonce), difficulty)

(* ------------------------------ settings ------------------------------- *)
pow_difficulty == 4
pow_low_power_difficulty == 2
(* TTLs in seconds, scaled down so that expiry happens inside PowMaxTime *)
pow_timeout_seconds == 1
pow_low_power_timeout_seconds == 2

Seconds(s) == s * TicksPerSecond

(* ------------------------------ variables ------------------------------ *)
VARIABLES
  now,          \* the clock, in ticks
  challenges,   \* table proof_of_work_challenge: id -> row (committed)
  v_pc,         \* verify_solution: position of each request
  v_req,        \* verify_solution: arguments of each request, and whether it
                \* started after a successful call for the challenge had committed
  v_obj,        \* verify_solution: the row loaded into the session (<<>> = None)
  v_chk,        \* clock value read by the service's expiry check
  v_result,     \* outcome of the request's verify_solution call
  v_hist,       \* per challenge: number of verify_solution calls that returned True
  v_calls,      \* number of verify_solution calls started
  v_audit,      \* verify_solution: <<>> or <<the audit entry added to the session>>
  audit_log,    \* table audit_log_entry: the committed rows
  pcl_pc,       \* cleanup_expired (challenges): position of the sweep
  pcl_cutoff,   \* cleanup_expired: the local variable cutoff
  pcl_deleted,  \* cleanup_expired: the returned number of deleted challenges
  pcl_calls,    \* number of cleanup_expired calls started
  rate_limits,  \* table rate_limit_entry: (ip_hash, endpoint) -> row (committed)
  rl_pc,        \* check_rate_limit: position of each request
  rl_req,       \* check_rate_limit: the key (ip_hash, endpoint) of each request
  rl_now,       \* check_rate_limit: the local variable now (line 74)
  rl_obj,       \* check_rate_limit: <<loaded row>> or <<>>, then also the entry in the session
  rl_branch,    \* check_rate_limit: branch taken (create, reset, increment)
  rl_result,    \* outcome of the request
  rl_ret,       \* returned (limit, remaining, reset) or [retry_after]
  rl_window,    \* per key: calls that found or opened the key's current window,
                \* and how many of them succeeded
  rl_calls,     \* number of check_rate_limit calls started
  rl_audit,     \* check_rate_limit: <<>> or <<the audit entry added to the session>>
  rl_log,       \* the check_rate_limit calls that succeeded: key, local now and
                \* clock value at the commit (recorded where a specification asks)
  r_pc,         \* get_remaining: position of each request
  r_req,        \* get_remaining: the key (ip_hash, endpoint) of each request
  r_obj,        \* get_remaining: <<loaded row>> or <<>>
  r_entry,      \* get_remaining: the entry in the session after the call
  r_ret,        \* get_remaining: <<>> or the returned (limit, remaining, reset)
  r_calls,      \* number of get_remaining calls started
  cl_pc,        \* cleanup_expired (rate limits): position of the sweep
  cl_cutoff,    \* cleanup_expired: the local variable cutoff
  cl_entries,   \* cleanup_expired: the rows the SELECT loaded, key -> row
  cl_deleted,   \* cleanup_expired: the returned number of deleted entries
  cl_calls,     \* number of cleanup_expired calls started
  rounds,       \* table game_rounds: id -> row (committed)
  guesses,      \* table guesses: the committed rows, in commit order
  g_pc,         \* submit_guess: position of each request
  g_req,        \* submit_guess: arguments of each request, and whether it
                \* started after a call that used the last guess had committed
  g_obj,        \* submit_guess: <<>> (None) or <<loaded row, row in the session>>
  g_guess,      \* submit_guess: <<>> or <<the Guess added to the session>>
  g_result,     \* outcome of the request's submit_guess call
  g_maxed,      \* rounds for which a call that used the last guess has committed
  g_calls,      \* number of submit_guess calls started
  photo_status, \* table photos: id -> the status column (committed)
  s_pc,         \* start_round: position of each request
  s_req,        \* start_round: the player id of each request
  s_recent,     \* start_round: the local variable recent_photo_ids, as a set
  s_photo,      \* start_round: <<>> or <<id of the photo of the new round>>
  s_result,     \* outcome of the request's start_round call
  s_calls,      \* number of start_round calls started
  photos,       \* table photos: id -> the columns file_hash, perceptual_hash
                \* and status of the rows the uploads read (committed)
  u_pc,         \* upload_photo: position of each request
  u_req,        \* upload_photo: the processed upload and the moderation result
  u_photo,      \* upload_photo: <<>> or <<id of the row the request inserted>>
  u_result,     \* outcome of the request
  u_calls,      \* number of upload_photo requests started
  players,      \* table player: id -> the score columns (committed)
  photo_stats,  \* table photos: id -> the usage columns (committed)
  c_pc,         \* complete_round: position of each request
  c_req,        \* complete_round: arguments of each request
  c_obj,        \* complete_round: the rows in the session, each <<>> or
                \* <<loaded row, row in the session>>
  c_result,     \* outcome of the request's complete_round call
  c_calls,      \* number of complete_round calls started
  i_pc,         \* create_challenge: position of each request
  i_req,        \* create_challenge: arguments of each request
  i_count,      \* create_challenge: the count read by _check_challenge_rate_limit
  i_row,        \* create_challenge: <<>> or <<the challenge added to the session>>
  i_result,     \* outcome of the request's create_challenge call
  settings,     \* the Settings object the ProofOfWorkService was built with
  f_args,       \* scoring functions: the arguments of the call
  f_ret,        \* scoring functions: <<>> or <<the returned value>>
  PROFANITY_WORDS,          \* profanity_filter: the module global (kind, words)
  contains_profanity_cache, \* profanity_filter: the lru_cache of contains_profanity
  filter_calls              \* profanity_filter: calls made

pcl_vars == <<pcl_pc, pcl_cutoff, pcl_deleted, pcl_calls>>

pow_vars == <<challenges, v_pc, v_req, v_obj, v_chk, v_result, v_hist, v_calls,
              v_audit, audit_log, pcl_vars>>

rem_vars == <<r_pc, r_req, r_obj, r_entry, r_ret, r_calls>>

cl_vars == <<cl_pc, cl_cutoff, cl_entries, cl_deleted, cl_calls>>

rl_vars == <<rate_limits, rl_pc, rl_req, rl_now, rl_obj, rl_branch, rl_result,
             rl_ret, rl_window, rl_calls, rl_audit, rl_log, rem_vars, cl_vars>>

start_vars == <<photo_status, s_pc, s_req, s_recent, s_photo, s_result, s_calls>>

upload_vars == <<photos, u_pc, u_req, u_photo, u_result, u_calls>>

game_vars == <<rounds, guesses, g_pc, g_req, g_obj, g_guess, g_result, g_maxed, g_calls,
               start_vars, upload_vars>>

stat_vars == <<players, photo_stats, c_pc, c_req, c_obj, c_result, c_calls>>

issue_vars == <<i_pc, i_req, i_count, i_row, i_result, settings>>

filter_vars == <<PROFANITY_WORDS, contains_profanity_cache, filter_calls>>

fn_vars == <<f_args, f_ret, filter_vars>>

vars == <<now, pow_vars, rl_vars, game_vars, stat_vars, issue_vars, fn_vars>>

ChallengeIds == 1..MaxChallenges
(* an id no challenge was ever issued under *)
UnknownChallengeId == 0

(* ---------------------- ProofOfWorkChallenge model --------------------- *)
(* ProofOfWorkChallenge.create *)
ChallengeCreate_RawIp(client_ip, difficulty, ttl_seconds, nonce, t) ==
  [ challenge_nonce |-> nonce,
    difficulty      |-> difficulty,
    expires_at      |-> t + Seconds(ttl_seconds),
    created_at      |-> t,
    client_ip_hash  |-> client_ip,
    solved_nonce    |-> NoneStr,
    solved_at       |-> NoneTime ]
ChallengeCreate(client_ip, difficulty, ttl_seconds, nonce, t) ==
  [ challenge_nonce |-> nonce,
    difficulty      |-> difficulty,
    expires_at      |-> t + Seconds(ttl_seconds),
    created_at      |-> t,
    client_ip_hash  |-> hash_ip(client_ip),
    solved_nonce    |-> NoneStr,
    solved_at       |-> NoneTime ]

(* ProofOfWorkChallenge.is_expired, read at clock value t *)
is_expired(ch, t) == t > ch.expires_at

(* ProofOfWorkChallenge.is_solved *)
is_solved(ch) == ch.solved_nonce # NoneStr

(* verify_solution that takes the challenge as expired at expires_at *)
challenge_verify_solution_ExpiredAt(ch, solution_nonce, t) ==
  IF t >= ch.expires_at THEN FALSE
  ELSE verify_pow_hash(ch.challenge_nonce, solution_nonce, ch.difficulty)

(* ProofOfWorkChallenge.verify_solution, read at clock value t *)
challenge_verify_solution(ch, solution_nonce, t) ==
  IF is_expired(ch, t) THEN FALSE
  ELSE verify_pow_hash(ch.challenge_nonce, solution_nonce, ch.difficulty)

(* ProofOfWorkChallenge.mark_solved at clock value t *)
mark_solved(ch, solution_nonce, t) ==
  [ch EXCEPT !.solved_nonce = solution_nonce, !.solved_at = t]

(* the columns an UPDATE flushes: those whose value differs from the       *)
(* loaded one; the other columns keep what the table holds                 *)
FlushUpdate(row, loaded, current) ==
  [f \in DOMAIN row |-> IF current[f] # loaded[f] THEN current[f] ELSE row[f]]

(* ------------------------------- clock --------------------------------- *)
(* time passes *)
Tick(max_time) ==
  /\ now < max_time
  /\ now' = now + 1

(* ----------------------------- AuditLogEntry --------------------------- *)
(* the parameters of AuditLogEntry.create *)
AuditCreateParams ==
  {"action", "actor_type", "actor_id_hash", "target_type", "target_id_hash",
   "metadata", "ip_hash"}

(* AuditLogEntry.create called with the keyword arguments kwargs at clock  *)
(* value t: <<the entry>>, or <<>> when a keyword is not a parameter and   *)
(* the call raises TypeError                                               *)
AuditLogEntryCreate(kwargs, t) ==
  IF DOMAIN kwargs \subseteq AuditCreateParams
  THEN <<[f \in AuditCreateParams \cup {"timestamp"} |->
            IF f = "timestamp" THEN <<t>>
            ELSE IF f \in DOMAIN kwargs THEN <<kwargs[f]>>
            ELSE <<>>]>>
  ELSE <<>>

(* the commit of a session: the audit entries added to it are inserted *)
AuditCommit(pending) == audit_log \cup {pending[i] : i \in DOMAIN pending}

(* --------------------------- create_challenge -------------------------- *)
(* _check_challenge_rate_limit: challenges of this digest created in the   *)
(* trailing 15 minutes                                                     *)
RecentChallengeCount(ip_hash, t) ==
  Cardinality({c \in DOMAIN challenges :
                 /\ challenges[c].client_ip_hash = ip_hash
                 /\ challenges[c].created_at >= t - Seconds(900)})

CreateChallenge(client_ip, low_power) ==
  /\ \E c \in ChallengeIds \ DOMAIN challenges :
       /\ \A d \in ChallengeIds \ DOMAIN challenges : c <= d
       /\ RecentChallengeCount(hash_ip(client_ip), now) < 10
       /\ \E nonce \in ChallengeNonces :
            LET difficulty == IF low_power THEN pow_low_power_difficulty
                              ELSE pow_difficulty
                ttl == IF low_power THEN pow_low_power_timeout_seconds
                       ELSE pow_timeout_seconds
            IN challenges' = [d \in DOMAIN challenges \cup {c} |->
                                IF d = c
                                THEN ChallengeCreate(client_ip, difficulty, ttl, nonce, now)
                                ELSE challenges[d]]
  /\ UNCHANGED <<now, v_pc, v_req, v_obj, v_chk, v_result, v_hist, v_calls>>
  /\ UNCHANGED <<v_audit, audit_log>>
  /\ UNCHANGED <<pcl_vars, rl_vars, game_vars, stat_vars, issue_vars, fn_vars>>

(* ---------------------------- verify_solution -------------------------- *)
NoRequest == [challenge_id |-> UnknownChallengeId, solution_nonce |-> "79",
              ip_hash |-> hash_ip("10.0.0.1"), after_success |-> FALSE,
              after_failure |-> FALSE]

(* the call has raised or the request has committed *)
VerifyEnd(p) ==
  /\ v_pc' = [v_pc EXCEPT ![p] = "done"]
  /\ UNCHANGED v_obj

(* lines 117-124: hash the address and SELECT the challenge *)
VerifyFetch(p, challenge_id, solution_nonce, client_ip) ==
  /\ v_pc[p] = "idle"
  /\ v_calls < MaxVerifyCalls
  /\ v_calls' = v_calls + 1
  /\ v_req' = [v_req EXCEPT ![p] = [challenge_id |-> challenge_id,
                                    solution_nonce |-> solution_nonce,
                                    ip_hash |-> hash_ip(client_ip),
                                    after_success |->
                                      /\ challenge_id \in DOMAIN challenges
                                      /\ is_solved(challenges[challenge_id]),
                                    after_failure |->
                                      \E q \in Procs :
                                        /\ v_pc[q] = "done"
                                        /\ v_result[q] # "ok"
                                        /\ v_req[q].challenge_id = challenge_id]]
  /\ v_obj' = [v_obj EXCEPT ![p] = IF challenge_id \in DOMAIN challenges
                                   THEN <<challenges[challenge_id]>>
                                   ELSE <<>>]
  /\ v_pc' = [v_pc EXCEPT ![p] = "fetched"]
  /\ v_result' = [v_result EXCEPT ![p] = "pending"]
  /\ UNCHANGED <<now, challenges, v_chk, v_hist, v_audit, audit_log>>
  /\ UNCHANGED <<pcl_vars, rl_vars, game_vars, stat_vars, issue_vars, fn_vars>>

(* lines 126-163, the order of the checks before the hash check; obj is    *)
(* the loaded row (<<>> = None) and t the clock read by is_expired         *)
CheckOutcome_NoIpCheck(obj, ip_hash, t) ==
  IF obj = <<>> THEN "ChallengeNotFound"
  ELSE IF is_solved(obj[1]) THEN "ChallengeAlreadyUsed"
  ELSE IF is_expired(obj[1], t) THEN "ChallengeExpired"
  ELSE "pending"

CheckOutcome_ExpiredFirst(obj, ip_hash, t) ==
  IF obj = <<>> THEN "ChallengeNotFound"
  ELSE IF is_expired(obj[1], t) THEN "ChallengeExpired"
  ELSE IF is_solved(obj[1]) THEN "ChallengeAlreadyUsed"
  ELSE IF obj[1].client_ip_hash # ip_hash THEN "IpMismatch"
  ELSE "pending"

CheckOutcome(obj, ip_hash, t) ==
  IF obj = <<>> THEN "ChallengeNotFound"
  ELSE IF is_solved(obj[1]) THEN "ChallengeAlreadyUsed"
  ELSE IF is_expired(obj[1], t) THEN "ChallengeExpired"
  ELSE IF obj[1].client_ip_hash # ip_hash THEN "IpMismatch"
  ELSE "pending"

(* lines 126-163: each failing check raises, and the request's session is  *)
(* rolled back                                                             *)
VerifyChecks(p) ==
  /\ v_pc[p] = "fetched"
  /\ v_chk' = [v_chk EXCEPT ![p] = now]
  /\ LET outcome == CheckOutcome(v_obj[p], v_req[p].ip_hash, now)
     IN /\ v_result' = [v_result EXCEPT ![p] = outcome]
        /\ IF outcome = "pending"
           THEN /\ v_pc' = [v_pc EXCEPT ![p] = "checked"]
                /\ UNCHANGED v_obj
           ELSE VerifyEnd(p)
  /\ UNCHANGED <<now, challenges, v_req, v_hist, v_calls, v_audit, audit_log>>
  /\ UNCHANGED <<pcl_vars, rl_vars, game_vars, stat_vars, issue_vars, fn_vars>>

(* lines 175-180: the keyword arguments of the AuditLogEntry.create call *)
PowFailedAudit(ip_hash, challenge_id) ==
  [ action       |-> "pow_failed",
    actor_type   |-> "anonymous",
    ip_hash      |-> ip_hash,
    context_data |-> [challenge_id |-> challenge_id] ]

(* lines 165-190: hash check; on failure the audit entry is created and    *)
(* added to the session and ProofOfWorkError is raised, unless             *)
(* AuditLogEntry.create raises first; on success mark_solved, flush,       *)
(* return True                                                             *)
VerifyHash(p) ==
  /\ v_pc[p] = "checked"
  /\ IF challenge_verify_solution(v_obj[p][1], v_req[p].solution_nonce, now)
     THEN /\ v_obj' = [v_obj EXCEPT ![p] =
                         <<v_obj[p][1], mark_solved(v_obj[p][1], v_req[p].solution_nonce, now)>>]
          /\ v_result' = [v_result EXCEPT ![p] = "ok"]
          /\ v_pc' = [v_pc EXCEPT ![p] = "flushed"]
          /\ v_hist' = [v_hist EXCEPT ![v_req[p].challenge_id] = @ + 1]
          /\ UNCHANGED v_audit
     ELSE LET audit == AuditLogEntryCreate(
                         PowFailedAudit(v_req[p].ip_hash, v_req[p].challenge_id), now)
          IN /\ v_audit' = [v_audit EXCEPT ![p] = audit]
             /\ v_result' = [v_result EXCEPT ![p] =
                               IF audit = <<>> THEN "TypeError" ELSE "InvalidSolution"]
             /\ VerifyEnd(p)
             /\ UNCHANGED v_hist
  /\ UNCHANGED <<now, challenges, v_req, v_chk, v_calls, audit_log>>
  /\ UNCHANGED <<pcl_vars, rl_vars, game_vars, stat_vars, issue_vars, fn_vars>>

(* line 188 and the request's commit: the flushed UPDATE becomes visible;  *)
(* when the row is gone the UPDATE matches no row, the flush raises        *)
(* StaleDataError and the call does not return True                        *)
VerifyCommit(p) ==
  /\ v_pc[p] = "flushed"
  /\ LET cid == v_req[p].challenge_id
     IN IF cid \in DOMAIN challenges
        THEN /\ challenges' = [challenges EXCEPT ![cid] =
                                 FlushUpdate(challenges[cid], v_obj[p][1], v_obj[p][2])]
             /\ audit_log' = AuditCommit(v_audit[p])
             /\ UNCHANGED <<v_result, v_hist>>
        ELSE /\ v_result' = [v_result EXCEPT ![p] = "StaleDataError"]
             /\ v_hist' = [v_hist EXCEPT ![cid] = @ - 1]
             /\ UNCHANGED <<challenges, audit_log>>
  /\ VerifyEnd(p)
  /\ UNCHANGED <<now, v_req, v_chk, v_calls, v_audit>>
  /\ UNCHANGED <<pcl_vars, rl_vars, game_vars, stat_vars, issue_vars, fn_vars>>

(* the response is sent; the session and the arguments are discarded *)
VerifyReturn(p) ==
  /\ v_pc[p] = "done"
  /\ v_pc' = [v_pc EXCEPT ![p] = "idle"]
  /\ v_req' = [v_req EXCEPT ![p] = NoRequest]
  /\ v_obj' = [v_obj EXCEPT ![p] = <<>>]
  /\ v_chk' = [v_chk EXCEPT ![p] = NoneTime]
  /\ v_result' = [v_result EXCEPT ![p] = "none"]
  /\ v_audit' = [v_audit EXCEPT ![p] = <<>>]
  /\ UNCHANGED <<now, challenges, v_hist, v_calls, audit_log>>
  /\ UNCHANGED <<pcl_vars, rl_vars, game_vars, stat_vars, issue_vars, fn_vars>>

(* ------------------- cleanup_expired (challenges) ---------------------- *)
(* line 223: timedelta(hours=24), scaled down with the TTLs *)
pow_cleanup_retention_seconds == PowRetentionSeconds

(* line 223: cutoff = datetime.now() - timedelta(hours=24) *)
PowCleanupCutoff(t) == t - Seconds(pow_cleanup_retention_seconds)

(* lines 225-227: the WHERE clause of the DELETE *)
PowExpiredBefore_Unsolved(ch, cutoff) == ch.expires_at < cutoff /\ ~is_solved(ch)
PowExpiredBefore(ch, cutoff) == ch.expires_at < cutoff

(* line 223: read the cutoff *)
PowCleanCutoff ==
  /\ pcl_pc = "idle"
  /\ pcl_calls < MaxPowCleanCalls
  /\ pcl_calls' = pcl_calls + 1
  /\ pcl_cutoff' = PowCleanupCutoff(now)
  /\ pcl_pc' = "cutoff"
  /\ UNCHANGED <<now, challenges, v_pc, v_req, v_obj, v_chk, v_result, v_hist, v_calls>>
  /\ UNCHANGED <<v_audit, audit_log, pcl_deleted>>
  /\ UNCHANGED <<rl_vars, game_vars, stat_vars, issue_vars, fn_vars>>

(* lines 225-234 and the commit of the caller: one DELETE statement, the   *)
(* number of deleted rows is returned                                      *)
PowCleanDelete ==
  /\ pcl_pc = "cutoff"
  /\ LET kept == {c \in DOMAIN challenges : ~PowExpiredBefore(challenges[c], pcl_cutoff)}
     IN /\ challenges' = [c \in kept |-> challenges[c]]
        /\ pcl_deleted' = Cardinality(DOMAIN challenges \ kept)
  /\ pcl_pc' = "done"
  /\ UNCHANGED <<now, v_pc, v_req, v_obj, v_chk, v_result, v_hist, v_calls>>
  /\ UNCHANGED <<v_audit, audit_log, pcl_cutoff, pcl_calls>>
  /\ UNCHANGED <<rl_vars, game_vars, stat_vars, issue_vars, fn_vars>>

(* the sweep has returned *)
PowCleanReturn ==
  /\ pcl_pc = "done"
  /\ pcl_pc' = "idle"
  /\ pcl_cutoff' = NoneTime
  /\ pcl_deleted' = 0
  /\ UNCHANGED <<now, challenges, v_pc, v_req, v_obj, v_chk, v_result, v_hist, v_calls>>
  /\ UNCHANGED <<v_audit, audit_log, pcl_calls>>
  /\ UNCHANGED <<rl_vars, game_vars, stat_vars, issue_vars, fn_vars>>

(* a verify_solution request next to the sweep *)
VerifyFetchClean(p, challenge_id, solution_nonce, client_ip) ==
  /\ v_calls < MaxPowCleanVerifyCalls
  /\ VerifyFetch(p, challenge_id, solution_nonce, client_ip)

(* ======================= RateLimitService ============================== *)
(* python int(): truncation toward zero *)
IntTrunc(n, d) == IF n >= 0 THEN n \div d ELSE -((-n) \div d)

RlEndpoints == {"/players/register"}
RlKeys == {<<hash_ip(ip), ep>> : ip \in ClientIps, ep \in RlEndpoints}

(* limit, window_seconds = get_rate_limit(endpoint), scaled down so that   *)
(* the limit and the end of the window are reached inside RlMaxTime        *)
rl_limit(endpoint) == RlLimit
rl_window_seconds(endpoint) == RlWindowSeconds

(* RateLimitEntry.create; window_start is a clock read of its own *)
RateLimitEntryCreate(window_duration_seconds, t) ==
  [ request_count |-> 1,
    window_start |-> t,
    window_duration_seconds |-> window_duration_seconds ]

(* RateLimitEntry.window_end *)
window_end(entry) == entry.window_start + Seconds(entry.window_duration_seconds)

(* RateLimitEntry.is_window_expired, read at clock value t *)
is_window_expired(entry, t) == t > window_end(entry)

NoRlKey == <<"", "">>
NoRlObj == [loaded |-> <<>>, entry |-> <<>>]

(* lines 63-74: SELECT the entry of the key, then now = datetime.now() *)
RlSelectUpTo(p, client_ip, endpoint, max_calls) ==
  /\ rl_pc[p] = "idle"
  /\ rl_calls < max_calls
  /\ rl_calls' = rl_calls + 1
  /\ LET key == <<hash_ip(client_ip), endpoint>>
     IN /\ rl_req' = [rl_req EXCEPT ![p] = key]
        /\ rl_obj' = [rl_obj EXCEPT ![p] =
                        [loaded |-> IF key \in DOMAIN rate_limits
                                    THEN <<rate_limits[key]>> ELSE <<>>,
                         entry |-> <<>>]]
  /\ rl_now' = [rl_now EXCEPT ![p] = now]
  /\ rl_pc' = [rl_pc EXCEPT ![p] = "selected"]
  /\ rl_result' = [rl_result EXCEPT ![p] = "pending"]
  /\ UNCHANGED <<now, rate_limits, rl_branch, rl_ret, rl_window, rl_audit, rl_log, rem_vars, cl_vars>>
  /\ UNCHANGED <<pow_vars, game_vars, stat_vars, issue_vars, fn_vars>>

RlSelect(p, client_ip, endpoint) == RlSelectUpTo(p, client_ip, endpoint, MaxRlCalls)

(* lines 76-93: which branch the call takes; t is the clock read by        *)
(* is_window_expired                                                       *)
RlBranch(loaded, t) ==
  IF loaded = <<>> THEN "create"
  ELSE IF is_window_expired(loaded[1], t) THEN "reset"
  ELSE "increment"

(* lines 76-93: the entry as the branch leaves it in the session; call_now *)
(* is the local now, t the clock read by RateLimitEntry.create             *)
RlEntry(loaded, branch, window_seconds, call_now, t) ==
  CASE branch = "create" -> RateLimitEntryCreate(window_seconds, t)
    [] branch = "reset" -> [loaded[1] EXCEPT !.window_start = call_now,
                                             !.request_count = 1]
    [] branch = "increment" -> [loaded[1] EXCEPT !.request_count = @ + 1]

(* line 99: the over-limit test *)
OverLimit(count, limit) == count > limit

(* lines 100-101 *)
RetryAfter(entry, call_now) ==
  Max(1, IntTrunc(window_end(entry) - call_now, TicksPerSecond))

(* the counters of the key's current window after a call has finished *)
RlCount(w, branch, ok) ==
  IF ok /\ branch \in {"create", "reset"} THEN [calls |-> 1, ok |-> 1]
  ELSE [calls |-> w.calls + 1, ok |-> w.ok + (IF ok THEN 1 ELSE 0)]

(* lines 112-121: the keyword arguments of the AuditLogEntry.create call *)
RateLimitAudit(ip_hash, endpoint, count, limit) ==
  [ action       |-> "rate_limit_triggered",
    actor_type   |-> "anonymous",
    ip_hash      |-> ip_hash,
    context_data |-> [endpoint |-> endpoint, count |-> count, limit |-> limit] ]

(* lines 76-129: update the entry in the session; over the limit: create   *)
(* the audit entry, add it to the session, flush and raise RateLimitError, *)
(* unless AuditLogEntry.create raises first; either way the session is     *)
(* rolled back                                                             *)
RlApply(p) ==
  /\ rl_pc[p] = "selected"
  /\ LET endpoint == rl_req[p][2]
         limit == rl_limit(endpoint)
         loaded == rl_obj[p].loaded
         branch == RlBranch(loaded, now)
         entry == RlEntry(loaded, branch, rl_window_seconds(endpoint), rl_now[p], now)
         remaining == IF branch = "increment" THEN limit - entry.request_count
                      ELSE limit - 1
         reset_timestamp == IntTrunc(window_end(entry), TicksPerSecond)
     IN /\ rl_branch' = [rl_branch EXCEPT ![p] = branch]
        /\ rl_obj' = [rl_obj EXCEPT ![p].entry = <<entry>>]
        /\ IF OverLimit(entry.request_count, limit)
           THEN LET audit == AuditLogEntryCreate(
                                 RateLimitAudit(rl_req[p][1], endpoint,
                                                entry.request_count, limit), now)
                IN /\ rl_audit' = [rl_audit EXCEPT ![p] = audit]
                   /\ IF audit = <<>>
                      THEN /\ rl_result' = [rl_result EXCEPT ![p] = "TypeError"]
                           /\ rl_ret' = [rl_ret EXCEPT ![p] = <<>>]
                      ELSE /\ rl_result' = [rl_result EXCEPT ![p] = "RateLimitExceeded"]
                           /\ rl_ret' = [rl_ret EXCEPT ![p] =
                                           <<RetryAfter(entry, rl_now[p])>>]
                   /\ rl_window' = [rl_window EXCEPT ![rl_req[p]] =
                                      RlCount(@, branch, FALSE)]
                   /\ rl_pc' = [rl_pc EXCEPT ![p] = "done"]
           ELSE /\ rl_ret' = [rl_ret EXCEPT ![p] =
                                <<limit, Max(0, remaining), reset_timestamp>>]
                /\ rl_pc' = [rl_pc EXCEPT ![p] = "flushing"]
                /\ UNCHANGED <<rl_result, rl_window, rl_audit>>
  /\ UNCHANGED <<now, rate_limits, rl_req, rl_now, rl_calls, rl_log, rem_vars, cl_vars>>
  /\ UNCHANGED <<pow_vars, game_vars, stat_vars, issue_vars, fn_vars>>

(* lines 131-133 and the commit of the request: the INSERT of a new entry  *)
(* fails on the primary key (ip_hash, endpoint) when the key has a row;    *)
(* the UPDATE of an entry whose row is gone matches no row, which the      *)
(* session reports as StaleDataError                                       *)
RlCommit(p) ==
  /\ rl_pc[p] = "flushing"
  /\ LET key == rl_req[p]
         entry == rl_obj[p].entry[1]
     IN IF rl_branch[p] = "create"
        THEN IF key \in DOMAIN rate_limits
             THEN /\ rl_result' = [rl_result EXCEPT ![p] = "IntegrityError"]
                  /\ rl_ret' = [rl_ret EXCEPT ![p] = <<>>]
                  /\ UNCHANGED <<rate_limits, rl_window>>
             ELSE /\ rate_limits' = [k \in DOMAIN rate_limits \cup {key} |->
                                       IF k = key THEN entry ELSE rate_limits[k]]
                  /\ rl_result' = [rl_result EXCEPT ![p] = "ok"]
                  /\ rl_window' = [rl_window EXCEPT ![key] = RlCount(@, "create", TRUE)]
                  /\ UNCHANGED rl_ret
        ELSE IF key \notin DOMAIN rate_limits
             THEN /\ rl_result' = [rl_result EXCEPT ![p] = "StaleDataError"]
                  /\ rl_ret' = [rl_ret EXCEPT ![p] = <<>>]
                  /\ UNCHANGED <<rate_limits, rl_window>>
             ELSE /\ rate_limits' = [rate_limits EXCEPT ![key] =
                                       FlushUpdate(@, rl_obj[p].loaded[1], entry)]
                  /\ rl_result' = [rl_result EXCEPT ![p] = "ok"]
                  /\ rl_window' = [rl_window EXCEPT ![key] =
                                     RlCount(@, rl_branch[p], TRUE)]
                  /\ UNCHANGED rl_ret
  /\ rl_pc' = [rl_pc EXCEPT ![p] = "done"]
  /\ UNCHANGED <<now, rl_req, rl_now, rl_obj, rl_branch, rl_calls, rl_audit, rem_vars, cl_vars>>
  /\ UNCHANGED <<pow_vars, game_vars, stat_vars, issue_vars, fn_vars>>

RlWrite(p) == RlCommit(p) /\ UNCHANGED rl_log

(* the same step, with a successful call added to the record of successes *)
RlWriteLogged(p) ==
  /\ RlCommit(p)
  /\ rl_log' = IF rl_result'[p] = "ok"
               THEN Append(rl_log, [key |-> rl_req[p], from |-> rl_now[p], to |-> now])
               ELSE rl_log

(* the response is sent; the session is discarded *)
RlReturn(p) ==
  /\ rl_pc[p] = "done"
  /\ rl_pc' = [rl_pc EXCEPT ![p] = "idle"]
  /\ rl_req' = [rl_req EXCEPT ![p] = NoRlKey]
  /\ rl_now' = [rl_now EXCEPT ![p] = NoneTime]
  /\ rl_obj' = [rl_obj EXCEPT ![p] = NoRlObj]
  /\ rl_branch' = [rl_branch EXCEPT ![p] = "none"]
  /\ rl_result' = [rl_result EXCEPT ![p] = "none"]
  /\ rl_ret' = [rl_ret EXCEPT ![p] = <<>>]
  /\ rl_audit' = [rl_audit EXCEPT ![p] = <<>>]
  /\ UNCHANGED <<now, rate_limits, rl_window, rl_calls, rl_log, rem_vars, cl_vars>>
  /\ UNCHANGED <<pow_vars, game_vars, stat_vars, issue_vars, fn_vars>>

(* a request that starts while no other request is in flight *)
RlSelectSeq(p, client_ip, endpoint) ==
  /\ \A q \in Procs : rl_pc[q] = "idle"
  /\ RlSelect(p, client_ip, endpoint)

(* ----------------------------- get_remaining --------------------------- *)
chk_rl_vars == <<rl_pc, rl_req, rl_now, rl_obj, rl_branch, rl_result, rl_ret,
                 rl_window, rl_calls, rl_audit, rl_log>>

(* lines 152-160: SELECT the entry of the key *)
RemSelect(p, client_ip, endpoint) ==
  /\ r_pc[p] = "idle"
  /\ rl_pc[p] = "idle"
  /\ r_calls < MaxRemCalls
  /\ r_calls' = r_calls + 1
  /\ LET key == <<hash_ip(client_ip), endpoint>>
     IN /\ r_req' = [r_req EXCEPT ![p] = key]
        /\ r_obj' = [r_obj EXCEPT ![p] = IF key \in DOMAIN rate_limits
                                         THEN <<rate_limits[key]>> ELSE <<>>]
  /\ r_pc' = [r_pc EXCEPT ![p] = "selected"]
  /\ UNCHANGED <<now, rate_limits, chk_rl_vars, r_entry, r_ret, cl_vars>>
  /\ UNCHANGED <<pow_vars, game_vars, stat_vars, issue_vars, fn_vars>>

(* line 166: remaining = max(0, limit - entry.request_count) *)
Remaining_Unclamped(limit, entry) == limit - entry.request_count

Remaining(limit, entry) == Max(0, limit - entry.request_count)

(* lines 162-169: the returned tuple; t is the clock read by               *)
(* is_window_expired                                                       *)
get_remaining(limit, loaded, t) ==
  IF loaded = <<>> \/ is_window_expired(loaded[1], t)
  THEN <<limit, limit, 0>>
  ELSE <<limit, Remaining(limit, loaded[1]),
         IntTrunc(window_end(loaded[1]), TicksPerSecond)>>

(* lines 152-169: the entry as get_remaining leaves it in the session; no  *)
(* line assigns to it, adds a row or flushes                               *)
SessionEntry_Incremented(loaded, t) ==
  IF loaded = <<>> THEN <<>>
  ELSE IF is_window_expired(loaded[1], t)
       THEN <<[loaded[1] EXCEPT !.window_start = t, !.request_count = 1]>>
       ELSE <<[loaded[1] EXCEPT !.request_count = @ + 1]>>

SessionEntry(loaded, t) == loaded

(* lines 162-169 *)
RemCompute(p) ==
  /\ r_pc[p] = "selected"
  /\ r_entry' = [r_entry EXCEPT ![p] = SessionEntry(r_obj[p], now)]
  /\ r_ret' = [r_ret EXCEPT ![p] = get_remaining(rl_limit(r_req[p][2]), r_obj[p], now)]
  /\ r_pc' = [r_pc EXCEPT ![p] = "done"]
  /\ UNCHANGED <<now, rate_limits, chk_rl_vars, r_req, r_obj, r_calls, cl_vars>>
  /\ UNCHANGED <<pow_vars, game_vars, stat_vars, issue_vars, fn_vars>>

(* the caller is done with the tuple and its session commits: the columns *)
(* of the entry that differ from the loaded row are written                *)
RemReturn(p) ==
  /\ r_pc[p] = "done"
  /\ rate_limits' = IF r_entry[p] # <<>> /\ r_req[p] \in DOMAIN rate_limits
                    THEN [rate_limits EXCEPT ![r_req[p]] =
                            FlushUpdate(@, r_obj[p][1], r_entry[p][1])]
                    ELSE rate_limits
  /\ r_pc' = [r_pc EXCEPT ![p] = "idle"]
  /\ r_req' = [r_req EXCEPT ![p] = NoRlKey]
  /\ r_obj' = [r_obj EXCEPT ![p] = <<>>]
  /\ r_entry' = [r_entry EXCEPT ![p] = <<>>]
  /\ r_ret' = [r_ret EXCEPT ![p] = <<>>]
  /\ UNCHANGED <<now, chk_rl_vars, r_calls, cl_vars>>
  /\ UNCHANGED <<pow_vars, game_vars, stat_vars, issue_vars, fn_vars>>

(* a check_rate_limit request of a process that is not in get_remaining *)
RlSelectFree(p, client_ip, endpoint) ==
  /\ r_pc[p] = "idle"
  /\ rl_calls < MaxRemRlCalls
  /\ RlSelect(p, client_ip, endpoint)

(* ------------------- cleanup_expired (rate limits) --------------------- *)
(* line 186: timedelta(hours=1), scaled down with the windows *)
cleanup_grace_seconds == RlGraceSeconds

(* line 186: cutoff = datetime.now() - timedelta(hours=1) *)
CleanupCutoff(t) == t - Seconds(cleanup_grace_seconds)

(* line 195: the test of the loop *)
ExpiredBefore(entry, cutoff) == window_end(entry) < cutoff

(* lines 186-191: read the cutoff, SELECT every entry into the session *)
CleanSelect ==
  /\ cl_pc = "idle"
  /\ cl_calls < MaxCleanCalls
  /\ cl_calls' = cl_calls + 1
  /\ cl_cutoff' = CleanupCutoff(now)
  /\ cl_entries' = rate_limits
  /\ cl_pc' = "selected"
  /\ UNCHANGED <<now, rate_limits, chk_rl_vars, rem_vars, cl_deleted>>
  /\ UNCHANGED <<pow_vars, game_vars, stat_vars, issue_vars, fn_vars>>

(* lines 193-203 and the commit of the caller: mark the loaded entries     *)
(* that ended before the cutoff, flush (DELETE by primary key, whatever    *)
(* the row holds by now) and return their number                           *)
CleanDelete ==
  /\ cl_pc = "selected"
  /\ LET marked == {k \in DOMAIN cl_entries : ExpiredBefore(cl_entries[k], cl_cutoff)}
     IN /\ rate_limits' = [k \in DOMAIN rate_limits \ marked |-> rate_limits[k]]
        /\ cl_deleted' = Cardinality(marked)
  /\ cl_pc' = "done"
  /\ UNCHANGED <<now, chk_rl_vars, rem_vars, cl_cutoff, cl_entries, cl_calls>>
  /\ UNCHANGED <<pow_vars, game_vars, stat_vars, issue_vars, fn_vars>>

(* the sweep has returned; the session is discarded *)
CleanReturn ==
  /\ cl_pc = "done"
  /\ cl_pc' = "idle"
  /\ cl_cutoff' = NoneTime
  /\ cl_entries' = <<>>
  /\ cl_deleted' = 0
  /\ UNCHANGED <<now, rate_limits, chk_rl_vars, rem_vars, cl_calls>>
  /\ UNCHANGED <<pow_vars, game_vars, stat_vars, issue_vars, fn_vars>>

(* a sweep that starts while no check_rate_limit request is in flight, and *)
(* a check_rate_limit request that starts while no sweep is in flight      *)
CleanSelectSeq == (\A q \in Procs : rl_pc[q] = "idle") /\ CleanSelect
RlSelectNoSweep(p, client_ip, endpoint) ==
  /\ cl_pc = "idle"
  /\ rl_calls < MaxCleanRlCalls
  /\ RlSelect(p, client_ip, endpoint)

(* a check_rate_limit request next to the sweep *)
RlSelectClean(p, client_ip, endpoint) ==
  /\ rl_calls < MaxCleanRlCalls
  /\ RlSelect(p, client_ip, endpoint)

(* python str() of an int, as a tuple of characters, and int() of it *)
Digits == <<"0", "1", "2", "3", "4", "5", "6", "7", "8", "9">>

RECURSIVE NatStr(_)
NatStr(n) == IF n < 10 THEN <<Digits[n + 1]>> ELSE NatStr(n \div 10) \o <<Digits[(n % 10) + 1]>>

IntStr(n) == IF n < 0 THEN <<"-">> \o NatStr(-n) ELSE NatStr(n)

DigitVal(ch) == CHOOSE d \in 0..9 : Digits[d + 1] = ch

RECURSIVE StrNat(_)
StrNat(str) == IF str = <<>> THEN 0 ELSE 10 * StrNat(SubSeq(str, 1, Len(str) - 1)) + DigitVal(str[Len(str)])

StrInt(str) == IF str[1] = "-" THEN -StrNat(Tail(str)) ELSE StrNat(str)

(* get_rate_limit_headers *)
get_rate_limit_headers(limit, remaining, reset_timestamp) ==
  [ XRateLimitLimit     |-> IntStr(limit),
    XRateLimitRemaining |-> IntStr(Max(0, remaining)),
    XRateLimitReset     |-> IntStr(reset_timestamp) ]

(* ============================ GameService ============================== *)
(* strings are tuples of characters; None is <<>> and a value v is <<v>>   *)
Str_A330 == <<"A", "3", "3", "0">>
Str_a320_padded == <<" ", "a", "3", "2", "0">>
Str_A320 == <<"A", "3", "2", "0">>
Str_EHAM == <<"E", "H", "A", "M">>

Players == {"player-1", "player-2"}
RoundIds == 1..MaxRounds
(* an id no round was ever started under *)
UnknownRoundId == 0

(* table photos: the approved photos a round can show *)
PhotoIds == {1}
Photos == [ph \in PhotoIds |-> [aircraft_type |-> Str_A320, airport_code |-> <<Str_EHAM>>]]

(* request bodies: aircraft_guess, location_lat, location_lon; a missing   *)
(* aircraft guess is None and a missing coordinate is NoneCoord            *)
NoneCoord == -1000
GuessBodies == { <<<<>>, 52, 4>>,
                 <<<<Str_A330>>, NoneCoord, NoneCoord>>,
                 <<<<Str_a320_padded>>, 52, 4>> }

(* settings, scaled to the clock of the model *)
round_duration_seconds == 1
max_guesses_per_round == MaxGuesses

MAX_AIRCRAFT_SCORE == 1000
MAX_LOCATION_SCORE == 1000

(* str.lower and str.strip *)
Uppers == <<"A", "B", "C", "D", "E", "F", "G", "H", "I", "J", "K", "L", "M",
            "N", "O", "P", "Q", "R", "S", "T", "U", "V", "W", "X", "Y", "Z">>
Lowers == <<"a", "b", "c", "d", "e", "f", "g", "h", "i", "j", "k", "l", "m",
            "n", "o", "p", "q", "r", "s", "t", "u", "v", "w", "x", "y", "z">>
LowerChar(c) ==
  IF \E i \in 1..26 : Uppers[i] = c
  THEN Lowers[CHOOSE i \in 1..26 : Uppers[i] = c]
  ELSE c
StrLower(s) == [i \in 1..Len(s) |-> LowerChar(s[i])]
Whitespace == {" ", "\t", "\n"}
RECURSIVE LStrip(_)
LStrip(s) == IF s # <<>> /\ s[1] \in Whitespace THEN LStrip(Tail(s)) ELSE s
RECURSIVE RStrip(_)
RStrip(s) ==
  IF s # <<>> /\ s[Len(s)] \in Whitespace THEN RStrip(SubSeq(s, 1, Len(s) - 1)) ELSE s
StrStrip(s) == RStrip(LStrip(s))
(* a in b *)
StrIn(a, b) ==
  \E i \in 0..(Len(b) - Len(a)) : SubSeq(b, i + 1, i + Len(a)) = a

(* the inner loop without the deletions term *)
RECURSIVE LevCurrentRow_NoDeletions(_, _, _, _)
LevCurrentRow_NoDeletions(previous_row, c1, s2, current_row) ==
  IF Len(current_row) = Len(s2) + 1 THEN current_row
  ELSE LET j == Len(current_row)
           insertions == previous_row[j + 1] + 1
           substitutions == previous_row[j] + (IF c1 # s2[j] THEN 1 ELSE 0)
       IN LevCurrentRow_NoDeletions(previous_row, c1, s2,
                                    Append(current_row, Min(insertions, substitutions)))

(* GameService._levenshtein_distance: the inner loop over s2 that builds   *)
(* current_row from previous_row for the character c1                      *)
RECURSIVE LevCurrentRow(_, _, _, _)
LevCurrentRow(previous_row, c1, s2, current_row) ==
  IF Len(current_row) = Len(s2) + 1 THEN current_row
  ELSE LET j == Len(current_row)
           insertions == previous_row[j + 1] + 1
           deletions == current_row[j] + 1
           substitutions == previous_row[j] + (IF c1 # s2[j] THEN 1 ELSE 0)
       IN LevCurrentRow(previous_row, c1, s2,
                        Append(current_row,
                               Min(insertions, Min(deletions, substitutions))))

(* the outer loop over s1, from its i-th character on *)
RECURSIVE LevRows(_, _, _, _)
LevRows(s1, s2, i, previous_row) ==
  IF i > Len(s1) THEN previous_row[Len(previous_row)]
  ELSE LevRows(s1, s2, i + 1, LevCurrentRow(previous_row, s1[i], s2, <<i>>))

RECURSIVE levenshtein_distance(_, _)
levenshtein_distance(s1, s2) ==
  IF Len(s1) < Len(s2) THEN levenshtein_distance(s2, s1)
  ELSE IF Len(s2) = 0 THEN Len(s1)
  ELSE LevRows(s1, s2, 1, [k \in 1..(Len(s2) + 1) |-> k - 1])

(* int(MAX_AIRCRAFT_SCORE * (similarity - 0.5) * 2 * 0.6) in IEEE doubles, *)
(* similarity = 1 - distance / max_len: for max_len <= 12 the double       *)
(* product falls just below the exact value at these (distance, max_len)   *)
LevScoreRoundedDown == {<<2, 5>>, <<3, 10>>, <<4, 10>>, <<1, 12>>, <<5, 12>>}
LevScore(distance, max_len) ==
  IF 2 * distance > max_len THEN 0
  ELSE ((MAX_AIRCRAFT_SCORE * 12 * (max_len - 2 * distance)) \div (20 * max_len))
       - (IF <<distance, max_len>> \in LevScoreRoundedDown THEN 1 ELSE 0)

(* GameService._score_aircraft_guess *)
score_aircraft_guess(guess, actual) ==
  LET guess_lower == StrStrip(StrLower(guess))
      actual_lower == StrStrip(StrLower(actual))
      shorter == Min(Len(guess_lower), Len(actual_lower))
      longer == Max(Len(guess_lower), Len(actual_lower))
  IN IF guess_lower = actual_lower THEN MAX_AIRCRAFT_SCORE
     ELSE IF StrIn(guess_lower, actual_lower) \/ StrIn(actual_lower, guess_lower)
     THEN (MAX_AIRCRAFT_SCORE * 8 * shorter) \div (10 * longer)
     ELSE IF longer = 0 THEN 0
     ELSE LevScore(levenshtein_distance(guess_lower, actual_lower), longer)

(* GameService._get_airport_coordinates: None for every code *)
get_airport_coordinates(airport_code) == <<>>

(* GameService._score_location_guess: (score, distance_km); the distance   *)
(* scoring below the two early returns needs coordinates, and              *)
(* _get_airport_coordinates has none for any code                          *)
NoneDist == -1
score_location_guess(guess_lat, guess_lon, airport_code) ==
  CASE airport_code = <<>> -> <<0, NoneDist>>
    [] get_airport_coordinates(airport_code[1]) = <<>> -> <<0, NoneDist>>

PERFECT_DISTANCE_KM == 50
ZERO_SCORE_DISTANCE_KM == 5000

(* line 421: int(MAX_LOCATION_SCORE * ratio) in IEEE doubles, ratio =       *)
(* 1 - excess_km / range_km: at these whole-km distances the double        *)
(* product falls just below the exact value, which is an integer           *)
LocationScoreRoundedDown ==
  {1634, 1733, 2723, 2822, 3317, 3416, 3911, 4010, 4505, 4604}

(* lines 412-421: the score for a distance, in whole km *)
LocationScore(distance_km) ==
  IF distance_km <= PERFECT_DISTANCE_KM THEN MAX_LOCATION_SCORE
  ELSE IF distance_km >= ZERO_SCORE_DISTANCE_KM THEN 0
  ELSE LET range_km == ZERO_SCORE_DISTANCE_KM - PERFECT_DISTANCE_KM
           excess_km == distance_km - PERFECT_DISTANCE_KM
       IN ((MAX_LOCATION_SCORE * (range_km - excess_km)) \div range_km)
          - (IF distance_km \in LocationScoreRoundedDown THEN 1 ELSE 0)

(* what a coordinate source answers for an airport code: None, or the      *)
(* coordinates of the airport                                              *)
AirportLookupResults == {<<>>, <<"coordinates">>}

(* lines 398-423: _score_location_guess for the answer airport_coords of   *)
(* the lookup of line 400 and the value distance_km of the call of lines   *)
(* 407-409                                                                 *)
score_location_guess_for(airport_code, airport_coords, distance_km) ==
  IF airport_code = <<>> THEN <<0, NoneDist>>
  ELSE IF airport_coords = <<>> THEN <<0, NoneDist>>
  ELSE <<LocationScore(distance_km), distance_km>>

(* ------------------------ GameRound and Guess -------------------------- *)
(* GameRound.create at clock value t, with the column defaults *)
GameRoundCreate(player_id, photo_id, duration_seconds, max_guesses, t) ==
  [ player_id           |-> player_id,
    photo_id            |-> photo_id,
    status              |-> "active",
    created_at          |-> t,
    started_at          |-> t,
    expires_at          |-> t + Seconds(duration_seconds),
    completed_at        |-> NoneTime,
    guesses_made        |-> 0,
    max_guesses         |-> max_guesses,
    final_score         |-> 0,
    aircraft_score      |-> 0,
    location_score      |-> 0,
    best_aircraft_guess |-> <<>>,
    best_location_lat   |-> NoneCoord,
    best_location_lon   |-> NoneCoord ]

(* GameRound.record_guess *)
record_guess(round, aircraft_score, location_score, aircraft_guess, location_lat, location_lon) ==
  LET better_aircraft == aircraft_score > round.aircraft_score
      better_location == location_score > round.location_score
      new_aircraft == IF better_aircraft THEN aircraft_score ELSE round.aircraft_score
      new_location == IF better_location THEN location_score ELSE round.location_score
  IN [round EXCEPT
        !.guesses_made = @ + 1,
        !.aircraft_score = new_aircraft,
        !.best_aircraft_guess =
           IF better_aircraft /\ aircraft_guess # <<>> /\ aircraft_guess # <<<<>>>>
           THEN aircraft_guess ELSE @,
        !.location_score = new_location,
        !.best_location_lat =
           IF better_location /\ location_lat # NoneCoord THEN location_lat ELSE @,
        !.best_location_lon =
           IF better_location /\ location_lon # NoneCoord THEN location_lon ELSE @,
        !.final_score = new_aircraft + new_location]

(* GameRound.complete at clock value t *)
complete(round, t) == [round EXCEPT !.status = "completed", !.completed_at = t]

(* Guess.create *)
GuessCreate(round_id, guess_number, aircraft_guess, aircraft_score, location_lat, location_lon, location_score, distance_km) ==
  [ round_id       |-> round_id,
    guess_number   |-> guess_number,
    aircraft_guess |-> aircraft_guess,
    aircraft_score |-> aircraft_score,
    location_lat   |-> location_lat,
    location_lon   |-> location_lon,
    location_score |-> location_score,
    distance_km    |-> distance_km,
    total_score    |-> aircraft_score + location_score ]

(* ------------------------------ start_round ---------------------------- *)
(* GameService.start_round: a new active round on an approved photo *)
StartRound(player_id) ==
  /\ \E r \in RoundIds \ DOMAIN rounds, photo_id \in PhotoIds :
       /\ \A q \in RoundIds \ DOMAIN rounds : r <= q
       /\ rounds' = [q \in DOMAIN rounds \cup {r} |->
                       IF q = r
                       THEN GameRoundCreate(player_id, photo_id, round_duration_seconds,
                                            max_guesses_per_round, now)
                       ELSE rounds[q]]
  /\ UNCHANGED <<now, guesses, g_pc, g_req, g_obj, g_guess, g_result, g_maxed, g_calls>>
  /\ UNCHANGED <<pow_vars, rl_vars, stat_vars, issue_vars, start_vars, upload_vars, fn_vars>>

(* ---------------- start_round, with the photo selection ---------------- *)
(* an id no player has *)
UnknownPlayer == "player-0"

(* the ids of the photos and of the rounds in the specification of         *)
(* start_round                                                             *)
StartPhotoIds == 1..MaxStartPhotos
StartRoundIds == 1..(MaxStoredRounds + MaxStartCalls)

(* line 296: limit(20), scaled down with the number of rounds *)
recent_limit == RecentRoundsLimit

(* line 295: order_by(created_at.desc()); rows of one tick in the order of *)
(* their ids, as their microsecond timestamps order them                   *)
NewerRound(a, b) ==
  \/ rounds[a].created_at > rounds[b].created_at
  \/ rounds[a].created_at = rounds[b].created_at /\ a > b

(* lines 292-299: the photo ids of the player's most recent rounds *)
RecentPhotoIds(player_id) ==
  LET own == {r \in DOMAIN rounds : rounds[r].player_id = player_id}
      recent == {r \in own : Cardinality({q \in own : NewerRound(q, r)}) < recent_limit}
  IN {rounds[r].photo_id : r \in recent}

(* lines 302-305 and 316: the approved photos *)
ApprovedPhotos == {ph \in DOMAIN photo_status : photo_status[ph] = "approved"}

(* lines 302-314: the photos the choice is made from *)
Candidates(recent_photo_ids) ==
  IF ApprovedPhotos \ recent_photo_ids # {} THEN ApprovedPhotos \ recent_photo_ids
  ELSE ApprovedPhotos

(* lines 80-83 and 292-299: the player check, then the query for the       *)
(* photos of the player's recent rounds                                    *)
StartRecent(p, player_id) ==
  /\ s_pc[p] = "idle"
  /\ s_calls < MaxStartCalls
  /\ s_calls' = s_calls + 1
  /\ s_req' = [s_req EXCEPT ![p] = player_id]
  /\ IF player_id \notin DOMAIN players
     THEN /\ s_result' = [s_result EXCEPT ![p] = "PlayerNotFound"]
          /\ s_pc' = [s_pc EXCEPT ![p] = "done"]
          /\ UNCHANGED s_recent
     ELSE /\ s_recent' = [s_recent EXCEPT ![p] = RecentPhotoIds(player_id)]
          /\ s_result' = [s_result EXCEPT ![p] = "pending"]
          /\ s_pc' = [s_pc EXCEPT ![p] = "recent"]
  /\ UNCHANGED <<now, rounds, guesses, g_pc, g_req, g_obj, g_guess, g_result, g_maxed, g_calls>>
  /\ UNCHANGED <<photo_status, s_photo, upload_vars>>
  /\ UNCHANGED <<pow_vars, rl_vars, stat_vars, issue_vars, fn_vars>>

(* lines 301-317 and 86-101, and the commit of the request: the queries    *)
(* for the approved photos, random.choice, the new round                   *)
StartSelect(p) ==
  /\ s_pc[p] = "recent"
  /\ IF Candidates(s_recent[p]) = {}
     THEN /\ s_result' = [s_result EXCEPT ![p] = "NoPhotosAvailable"]
          /\ UNCHANGED <<rounds, s_photo>>
     ELSE \E photo_id \in Candidates(s_recent[p]), r \in StartRoundIds \ DOMAIN rounds :
            /\ \A q \in StartRoundIds \ DOMAIN rounds : r <= q
            /\ rounds' = [q \in DOMAIN rounds \cup {r} |->
                            IF q = r
                            THEN GameRoundCreate(s_req[p], photo_id, round_duration_seconds,
                                                 max_guesses_per_round, now)
                            ELSE rounds[q]]
            /\ s_photo' = [s_photo EXCEPT ![p] = <<photo_id>>]
            /\ s_result' = [s_result EXCEPT ![p] = "ok"]
  /\ s_pc' = [s_pc EXCEPT ![p] = "done"]
  /\ UNCHANGED <<now, guesses, g_pc, g_req, g_obj, g_guess, g_result, g_maxed, g_calls>>
  /\ UNCHANGED <<photo_status, s_req, s_recent, s_calls, upload_vars>>
  /\ UNCHANGED <<pow_vars, rl_vars, stat_vars, issue_vars, fn_vars>>

(* the response is sent *)
StartReturn(p) ==
  /\ s_pc[p] = "done"
  /\ s_pc' = [s_pc EXCEPT ![p] = "idle"]
  /\ s_req' = [s_req EXCEPT ![p] = "player-1"]
  /\ s_recent' = [s_recent EXCEPT ![p] = {}]
  /\ s_photo' = [s_photo EXCEPT ![p] = <<>>]
  /\ s_result' = [s_result EXCEPT ![p] = "none"]
  /\ UNCHANGED <<now, rounds, guesses, g_pc, g_req, g_obj, g_guess, g_result, g_maxed, g_calls>>
  /\ UNCHANGED <<photo_status, s_calls, upload_vars>>
  /\ UNCHANGED <<pow_vars, rl_vars, stat_vars, issue_vars, fn_vars>>

(* a request that starts while no other start_round request is in flight *)
StartRecentSeq(p, player_id) ==
  /\ \A q \in Procs : s_pc[q] = "idle"
  /\ StartRecent(p, player_id)

(* ------------------------------ upload_photo --------------------------- *)
(* a perceptual hash is a string of HashHexLen hexadecimal digits, written *)
(* as the sequence of the values of its digits; 16 stands for a character  *)
(* that is no hexadecimal digit                                            *)
HexDigits == 0..15

NonHexChar == 16

(* the hash string whose first k bits are set, the others clear *)
PrefixOnes(k) ==
  [i \in 1..HashHexLen |-> 16 - 2^(4 - Min(4, Max(0, k - 4 * (i - 1))))]

(* default of the parameter threshold of check_duplicate *)
threshold == 10

(* process_upload: the digests and the perceptual hashes of the uploads *)
FileHashes == {"digest-1", "digest-2"}

UploadHashes == {PrefixOnes(k) : k \in {0, threshold, threshold + 1}}

(* imagehash.hex_to_hash: <<the bits of the hash>>, or <<>> when the       *)
(* string is no hexadecimal number and int() raises ValueError             *)
hex_to_hash(hexstr) ==
  IF \A i \in DOMAIN hexstr : hexstr[i] \in HexDigits
  THEN <<[j \in 1..(4 * Len(hexstr)) |->
            (hexstr[((j - 1) \div 4) + 1] \div 2^(3 - ((j - 1) % 4))) % 2]>>
  ELSE <<>>

(* new_hash - existing_hash: the number of bits that differ *)
HammingDistance(a, b) == Cardinality({j \in DOMAIN a : a[j] # b[j]})

check_duplicate_Below(perceptual_hash, existing_hashes) ==
  LET new_hash == hex_to_hash(perceptual_hash)[1]
  IN \E existing \in existing_hashes :
       /\ hex_to_hash(existing) # <<>>
       /\ HammingDistance(new_hash, hex_to_hash(existing)[1]) < threshold

(* PhotoProcessor.check_duplicate: an existing hash that cannot be parsed  *)
(* is skipped (except ValueError: continue)                                *)
check_duplicate(perceptual_hash, existing_hashes) ==
  LET new_hash == hex_to_hash(perceptual_hash)[1]
  IN \E existing \in existing_hashes :
       /\ hex_to_hash(existing) # <<>>
       /\ HammingDistance(new_hash, hex_to_hash(existing)[1]) <= threshold

(* parameters of Photo.create *)
PhotoCreateParams ==
  {"filename", "file_hash", "file_size", "width", "height", "mime_type",
   "aircraft_type", "uploader_id", "perceptual_hash", "aircraft_registration",
   "airline", "airport_code"}

(* Photo.create called with the keyword arguments kwargs: <<the row>>, or  *)
(* <<>> when a keyword is not a parameter and the call raises TypeError    *)
PhotoCreate(kwargs) ==
  IF DOMAIN kwargs \subseteq PhotoCreateParams
  THEN <<[file_hash       |-> kwargs.file_hash,
          perceptual_hash |-> kwargs.perceptual_hash,
          status          |-> "pending"]>>
  ELSE <<>>

(* lines 155-170: the keyword arguments upload_photo passes to Photo.create *)
UploadPhotoKwargs(req) ==
  [ filename              |-> "stored",
    file_path             |-> "storage/stored",
    file_hash             |-> req.file_hash,
    file_size             |-> "size",
    width                 |-> "width",
    height                |-> "height",
    mime_type             |-> "image/jpeg",
    perceptual_hash       |-> <<req.perceptual_hash>>,
    aircraft_type         |-> "type",
    aircraft_registration |-> <<>>,
    airline               |-> <<>>,
    airport_code          |-> <<>>,
    uploader_id           |-> <<>>,
    exif_stripped         |-> TRUE ]

(* parameters of AuditService.log_photo_uploaded after session, and the    *)
(* keywords upload_photo passes (lines 188-193)                            *)
LogPhotoUploadedParams == {"photo_id", "uploader_id", "client_ip"}

UploadAuditKeywords == {"photo_id", "player_id", "client_ip"}

(* AuditService.log_event: the keyword arguments of AuditLogEntry.create *)
PhotoUploadedAudit(photo_id) ==
  [ action         |-> "photo_uploaded",
    actor_type     |-> "anonymous",
    actor_id_hash  |-> <<>>,
    target_type    |-> "photo",
    target_id_hash |-> photo_id,
    ip_hash        |-> <<>>,
    context_data   |-> <<>> ]

UploadPhotoIds == 1..(MaxStoredPhotos + MaxUploadCalls)

(* ContentModerationService.check_image: the ModerationResults it returns  *)
(* (is_safe, confidence in hundredths): a file that is missing, too large, *)
(* too small or unreadable, a high skin tone ratio, low complexity alone,  *)
(* and "passed all checks"                                                 *)
PassConfidence == 90
ModerationResults ==
  {[is_safe |-> FALSE, confidence |-> 100],
   [is_safe |-> FALSE, confidence |-> 70],
   [is_safe |-> FALSE, confidence |-> 80],
   [is_safe |-> TRUE, confidence |-> PassConfidence]}

(* upload_photo line 173: moderation_result.confidence > 0.9 *)
AutoApproveConfidence == 90
AutoApproved(confidence) == confidence > AutoApproveConfidence

NoUpload == [file_hash |-> "digest-1", perceptual_hash |-> PrefixOnes(0),
             is_safe |-> TRUE, confidence |-> PassConfidence]

(* lines 101-131: process_upload and the moderation check; an upload that  *)
(* is not safe is refused                                                  *)
UploadProcess(p, file_hash, perceptual_hash, moderation_result) ==
  /\ u_pc[p] = "idle"
  /\ u_calls < MaxUploadCalls
  /\ u_calls' = u_calls + 1
  /\ u_req' = [u_req EXCEPT ![p] = [file_hash |-> file_hash,
                                    perceptual_hash |-> perceptual_hash,
                                    is_safe |-> moderation_result.is_safe,
                                    confidence |-> moderation_result.confidence]]
  /\ IF moderation_result.is_safe
     THEN /\ u_pc' = [u_pc EXCEPT ![p] = "processed"]
          /\ u_result' = [u_result EXCEPT ![p] = "pending"]
     ELSE /\ u_pc' = [u_pc EXCEPT ![p] = "done"]
          /\ u_result' = [u_result EXCEPT ![p] = "PhotoValidationError"]
  /\ UNCHANGED <<photos, u_photo>>
  /\ UNCHANGED <<now, rounds, guesses, g_pc, g_req, g_obj, g_guess, g_result, g_maxed, g_calls>>
  /\ UNCHANGED <<pow_vars, rl_vars, stat_vars, issue_vars, start_vars, fn_vars>>

(* lines 133-138: the query for a photo of the same digest *)
UploadCheckHash(p) ==
  /\ u_pc[p] = "processed"
  /\ IF \E id \in DOMAIN photos : photos[id].file_hash = u_req[p].file_hash
     THEN /\ u_pc' = [u_pc EXCEPT ![p] = "done"]
          /\ u_result' = [u_result EXCEPT ![p] = "PhotoValidationError"]
     ELSE /\ u_pc' = [u_pc EXCEPT ![p] = "hash_checked"]
          /\ UNCHANGED u_result
  /\ UNCHANGED <<photos, u_req, u_photo, u_calls>>
  /\ UNCHANGED <<now, rounds, guesses, g_pc, g_req, g_obj, g_guess, g_result, g_maxed, g_calls>>
  /\ UNCHANGED <<pow_vars, rl_vars, stat_vars, issue_vars, start_vars, fn_vars>>

(* lines 140-152: the query for the perceptual hashes that are not NULL,   *)
(* and check_duplicate                                                     *)
UploadCheckSimilar(p) ==
  /\ u_pc[p] = "hash_checked"
  /\ LET existing_hashes == {photos[id].perceptual_hash[1] :
                               id \in {i \in DOMAIN photos : photos[i].perceptual_hash # <<>>}}
     IN IF /\ u_req[p].perceptual_hash # <<>>
           /\ check_duplicate(u_req[p].perceptual_hash, existing_hashes)
        THEN /\ u_pc' = [u_pc EXCEPT ![p] = "done"]
             /\ u_result' = [u_result EXCEPT ![p] = "PhotoValidationError"]
        ELSE /\ u_pc' = [u_pc EXCEPT ![p] = "checked"]
             /\ UNCHANGED u_result
  /\ UNCHANGED <<photos, u_req, u_photo, u_calls>>
  /\ UNCHANGED <<now, rounds, guesses, g_pc, g_req, g_obj, g_guess, g_result, g_maxed, g_calls>>
  /\ UNCHANGED <<pow_vars, rl_vars, stat_vars, issue_vars, start_vars, fn_vars>>

(* lines 154-195: Photo.create, the moderation result, add and flush (the  *)
(* column file_hash is unique), the audit entry, commit; an exception      *)
(* rolls the session back                                                  *)
UploadCreate(p) ==
  /\ u_pc[p] = "checked"
  /\ LET created == PhotoCreate(UploadPhotoKwargs(u_req[p]))
         photo == IF AutoApproved(u_req[p].confidence)
                  THEN [created[1] EXCEPT !.status = "approved"]
                  ELSE created[1]
         id == CHOOSE i \in UploadPhotoIds \ DOMAIN photos :
                 \A j \in UploadPhotoIds \ DOMAIN photos : i <= j
         entry == AuditLogEntryCreate(PhotoUploadedAudit(id), now)
     IN IF created = <<>>
        THEN /\ u_result' = [u_result EXCEPT ![p] = "TypeError"]
             /\ UNCHANGED <<photos, u_photo, audit_log>>
        ELSE IF \E i \in DOMAIN photos : photos[i].file_hash = photo.file_hash
        THEN /\ u_result' = [u_result EXCEPT ![p] = "IntegrityError"]
             /\ UNCHANGED <<photos, u_photo, audit_log>>
        ELSE IF ~(UploadAuditKeywords \subseteq LogPhotoUploadedParams) \/ entry = <<>>
        THEN /\ u_result' = [u_result EXCEPT ![p] = "TypeError"]
             /\ UNCHANGED <<photos, u_photo, audit_log>>
        ELSE /\ photos' = [i \in DOMAIN photos \cup {id} |->
                             IF i = id THEN photo ELSE photos[i]]
             /\ u_photo' = [u_photo EXCEPT ![p] = <<id>>]
             /\ audit_log' = AuditCommit(entry)
             /\ u_result' = [u_result EXCEPT ![p] = "ok"]
  /\ u_pc' = [u_pc EXCEPT ![p] = "done"]
  /\ UNCHANGED <<u_req, u_calls>>
  /\ UNCHANGED <<now, rounds, guesses, g_pc, g_req, g_obj, g_guess, g_result, g_maxed, g_calls>>
  /\ UNCHANGED <<challenges, v_pc, v_req, v_obj, v_chk, v_result, v_hist, v_calls, v_audit, pcl_vars>>
  /\ UNCHANGED <<rl_vars, stat_vars, issue_vars, start_vars, fn_vars>>

(* the response is sent *)
UploadReturn(p) ==
  /\ u_pc[p] = "done"
  /\ u_pc' = [u_pc EXCEPT ![p] = "idle"]
  /\ u_req' = [u_req EXCEPT ![p] = NoUpload]
  /\ u_photo' = [u_photo EXCEPT ![p] = <<>>]
  /\ u_result' = [u_result EXCEPT ![p] = "none"]
  /\ UNCHANGED <<photos, u_calls>>
  /\ UNCHANGED <<now, rounds, guesses, g_pc, g_req, g_obj, g_guess, g_result, g_maxed, g_calls>>
  /\ UNCHANGED <<pow_vars, rl_vars, stat_vars, issue_vars, start_vars, fn_vars>>

(* ------------------------------ submit_guess --------------------------- *)
NoGuessRequest == [round_id |-> UnknownRoundId, player_id |-> "player-1",
                   aircraft_guess |-> <<>>, location_lat |-> NoneCoord,
                   location_lon |-> NoneCoord, after_max |-> FALSE]

(* lines 134: SELECT the round into the session of the request *)
GuessFetch(p, round_id, player_id, body) ==
  /\ g_pc[p] = "idle"
  /\ g_calls < MaxGuessCalls
  /\ g_calls' = g_calls + 1
  /\ g_req' = [g_req EXCEPT ![p] = [round_id |-> round_id,
                                    player_id |-> player_id,
                                    aircraft_guess |-> body[1],
                                    location_lat |-> body[2],
                                    location_lon |-> body[3],
                                    after_max |-> round_id \in g_maxed]]
  /\ g_obj' = [g_obj EXCEPT ![p] = IF round_id \in DOMAIN rounds
                                   THEN <<rounds[round_id], rounds[round_id]>>
                                   ELSE <<>>]
  /\ g_pc' = [g_pc EXCEPT ![p] = "fetched"]
  /\ g_result' = [g_result EXCEPT ![p] = "pending"]
  /\ UNCHANGED <<now, rounds, guesses, g_guess, g_maxed>>
  /\ UNCHANGED <<pow_vars, rl_vars, stat_vars, issue_vars, start_vars, upload_vars, fn_vars>>

(* lines 151 and 198: all guesses of the round are used *)
MaxReached_Strict(round) == round.guesses_made > round.max_guesses

MaxReached(round) == round.guesses_made >= round.max_guesses

(* lines 135-154, the checks before the guess is scored; obj is the        *)
(* session's round (<<>> = None) and t the clock read of line 145          *)
GuessCheckOutcome_NoOwnerCheck(obj, player_id, t) ==
  IF obj = <<>> THEN "GameRoundNotFound"
  ELSE IF obj[1].status # "active" THEN "RoundNotActive"
  ELSE IF t > obj[1].expires_at THEN "RoundExpired"
  ELSE IF MaxReached(obj[1]) THEN "RoundNotActive"
  ELSE "pending"
GuessCheckOutcome(obj, player_id, t) ==
  IF obj = <<>> THEN "GameRoundNotFound"
  ELSE IF obj[1].player_id # player_id THEN "GameRoundNotFound"
  ELSE IF obj[1].status # "active" THEN "RoundNotActive"
  ELSE IF t > obj[1].expires_at THEN "RoundExpired"
  ELSE IF MaxReached(obj[1]) THEN "RoundNotActive"
  ELSE "pending"

(* lines 135-154: a failing check raises and the session is rolled back;   *)
(* RoundExpired and the guesses-used check first complete the round in     *)
(* the session and flush                                                   *)
GuessChecks(p) ==
  /\ g_pc[p] = "fetched"
  /\ LET outcome == GuessCheckOutcome(g_obj[p], g_req[p].player_id, now)
     IN /\ g_result' = [g_result EXCEPT ![p] = outcome]
        /\ g_pc' = [g_pc EXCEPT ![p] = IF outcome = "pending" THEN "checked" ELSE "done"]
        /\ g_obj' = [g_obj EXCEPT ![p] =
                       IF g_obj[p] # <<>> /\ g_obj[p][1].player_id = g_req[p].player_id
                          /\ g_obj[p][1].status = "active"
                          /\ outcome \in {"RoundExpired", "RoundNotActive"}
                       THEN <<g_obj[p][1], complete(g_obj[p][1], now)>>
                       ELSE g_obj[p]]
  /\ UNCHANGED <<now, rounds, guesses, g_req, g_guess, g_maxed, g_calls>>
  /\ UNCHANGED <<pow_vars, rl_vars, stat_vars, issue_vars, start_vars, upload_vars, fn_vars>>

(* lines 156-201: score the guess, add the Guess, record it on the round,  *)
(* complete the round when the last guess is used, flush                   *)
GuessRecord(p) ==
  /\ g_pc[p] = "checked"
  /\ LET req == g_req[p]
         round == g_obj[p][1]
         photo == Photos[round.photo_id]
         aircraft_score ==
           IF req.aircraft_guess # <<>> /\ req.aircraft_guess # <<<<>>>>
           THEN score_aircraft_guess(req.aircraft_guess[1], photo.aircraft_type)
           ELSE 0
         location ==
           IF req.location_lat # NoneCoord /\ req.location_lon # NoneCoord
           THEN score_location_guess(req.location_lat, req.location_lon,
                                     photo.airport_code)
           ELSE <<0, NoneDist>>
         guess == GuessCreate(req.round_id, round.guesses_made + 1, req.aircraft_guess,
                              aircraft_score, req.location_lat, req.location_lon,
                              location[1], location[2])
         recorded == record_guess(round, aircraft_score, location[1], req.aircraft_guess,
                                  req.location_lat, req.location_lon)
         current == IF MaxReached(recorded) THEN complete(recorded, now) ELSE recorded
     IN /\ g_guess' = [g_guess EXCEPT ![p] = <<guess>>]
        /\ g_obj' = [g_obj EXCEPT ![p] = <<round, current>>]
  /\ g_result' = [g_result EXCEPT ![p] = "ok"]
  /\ g_pc' = [g_pc EXCEPT ![p] = "flushed"]
  /\ UNCHANGED <<now, rounds, guesses, g_req, g_maxed, g_calls>>
  /\ UNCHANGED <<pow_vars, rl_vars, stat_vars, issue_vars, start_vars, upload_vars, fn_vars>>

(* api/games.py submit_guess, session.commit(): the INSERT of the Guess    *)
(* and the UPDATE of the round become visible                              *)
GuessCommit(p) ==
  /\ g_pc[p] = "flushed"
  /\ LET r == g_req[p].round_id
     IN /\ rounds' = [rounds EXCEPT ![r] = FlushUpdate(@, g_obj[p][1], g_obj[p][2])]
        /\ g_maxed' = IF MaxReached(g_obj[p][2]) THEN g_maxed \cup {r} ELSE g_maxed
  /\ guesses' = Append(guesses, g_guess[p][1])
  /\ g_pc' = [g_pc EXCEPT ![p] = "done"]
  /\ UNCHANGED <<now, g_req, g_obj, g_guess, g_result, g_calls>>
  /\ UNCHANGED <<pow_vars, rl_vars, stat_vars, issue_vars, start_vars, upload_vars, fn_vars>>

(* the response is sent; the session and the arguments are discarded *)
GuessReturn(p) ==
  /\ g_pc[p] = "done"
  /\ g_pc' = [g_pc EXCEPT ![p] = "idle"]
  /\ g_req' = [g_req EXCEPT ![p] = NoGuessRequest]
  /\ g_obj' = [g_obj EXCEPT ![p] = <<>>]
  /\ g_guess' = [g_guess EXCEPT ![p] = <<>>]
  /\ g_result' = [g_result EXCEPT ![p] = "none"]
  /\ UNCHANGED <<now, rounds, guesses, g_maxed, g_calls>>
  /\ UNCHANGED <<pow_vars, rl_vars, stat_vars, issue_vars, start_vars, upload_vars, fn_vars>>

(* a request that starts while no other request is in flight *)
GuessFetchSeq(p, round_id, player_id, body) ==
  /\ \A q \in Procs : g_pc[q] = "idle"
  /\ GuessFetch(p, round_id, player_id, body)

(* ---------------------------- complete_round -------------------------- *)
(* Player.add_score at clock value t *)
add_score(player, points, t) ==
  [player EXCEPT !.total_score = @ + points,
                 !.games_played = @ + 1,
                 !.last_active = t]

(* Photo.record_usage *)
record_usage(photo, score_awarded) ==
  [photo EXCEPT !.times_used = @ + 1,
                !.total_score_awarded = @ + score_awarded]

NoCompleteRequest == [round_id |-> UnknownRoundId, player_id |-> "player-1"]
NoCompleteObj == [round |-> <<>>, player |-> <<>>, photo |-> <<>>]

(* line 227: SELECT the round into the session of the request *)
CompleteFetch(p, round_id, player_id) ==
  /\ c_pc[p] = "idle"
  /\ g_pc[p] = "idle"
  /\ c_calls < MaxCompleteCalls
  /\ c_calls' = c_calls + 1
  /\ c_req' = [c_req EXCEPT ![p] = [round_id |-> round_id, player_id |-> player_id]]
  /\ c_obj' = [c_obj EXCEPT ![p].round = IF round_id \in DOMAIN rounds
                                         THEN <<rounds[round_id], rounds[round_id]>>
                                         ELSE <<>>]
  /\ c_pc' = [c_pc EXCEPT ![p] = "fetched"]
  /\ c_result' = [c_result EXCEPT ![p] = "pending"]
  /\ UNCHANGED <<now, players, photo_stats>>
  /\ UNCHANGED <<pow_vars, rl_vars, game_vars, issue_vars, fn_vars>>

(* lines 228-234: the owner check; an active round is completed in the     *)
(* session and the player is SELECTed; any other round is returned as is   *)
CompleteCheck(p) ==
  /\ c_pc[p] = "fetched"
  /\ LET obj == c_obj[p].round
         req == c_req[p]
     IN IF obj = <<>> \/ obj[1].player_id # req.player_id
        THEN /\ c_result' = [c_result EXCEPT ![p] = "GameRoundNotFound"]
             /\ c_pc' = [c_pc EXCEPT ![p] = "done"]
             /\ UNCHANGED c_obj
        ELSE IF obj[1].status = "active"
        THEN /\ c_obj' = [c_obj EXCEPT ![p].round = <<obj[1], complete(obj[1], now)>>,
                                       ![p].player = <<players[req.player_id],
                                                       players[req.player_id]>>]
             /\ c_pc' = [c_pc EXCEPT ![p] = "player"]
             /\ UNCHANGED c_result
        ELSE /\ c_result' = [c_result EXCEPT ![p] = "ok"]
             /\ c_pc' = [c_pc EXCEPT ![p] = "flushed"]
             /\ UNCHANGED c_obj
  /\ UNCHANGED <<now, players, photo_stats, c_req, c_calls>>
  /\ UNCHANGED <<pow_vars, rl_vars, game_vars, issue_vars, fn_vars>>

(* lines 235-240: add the round's final_score to the player, SELECT the    *)
(* photo                                                                   *)
CompletePlayer(p) ==
  /\ c_pc[p] = "player"
  /\ LET round == c_obj[p].round[2]
         player == c_obj[p].player
     IN c_obj' = [c_obj EXCEPT ![p].player = <<player[1],
                                              add_score(player[1], round.final_score, now)>>,
                               ![p].photo = <<photo_stats[round.photo_id],
                                              photo_stats[round.photo_id]>>]
  /\ c_pc' = [c_pc EXCEPT ![p] = "photo"]
  /\ UNCHANGED <<now, players, photo_stats, c_req, c_result, c_calls>>
  /\ UNCHANGED <<pow_vars, rl_vars, game_vars, issue_vars, fn_vars>>

(* lines 241-246: record the usage on the photo, flush, return the round *)
CompletePhoto(p) ==
  /\ c_pc[p] = "photo"
  /\ LET round == c_obj[p].round[2]
         photo == c_obj[p].photo
     IN c_obj' = [c_obj EXCEPT ![p].photo = <<photo[1],
                                             record_usage(photo[1], round.final_score)>>]
  /\ c_result' = [c_result EXCEPT ![p] = "ok"]
  /\ c_pc' = [c_pc EXCEPT ![p] = "flushed"]
  /\ UNCHANGED <<now, players, photo_stats, c_req, c_calls>>
  /\ UNCHANGED <<pow_vars, rl_vars, game_vars, issue_vars, fn_vars>>

(* api/games.py complete_round, session.commit(): the UPDATEs of the       *)
(* round, the player and the photo become visible                          *)
CompleteCommit(p) ==
  /\ c_pc[p] = "flushed"
  /\ LET obj == c_obj[p]
         r == c_req[p].round_id
     IN /\ rounds' = [rounds EXCEPT ![r] = FlushUpdate(@, obj.round[1], obj.round[2])]
        /\ players' = IF obj.player = <<>> THEN players
                      ELSE [players EXCEPT ![c_req[p].player_id] =
                              FlushUpdate(@, obj.player[1], obj.player[2])]
        /\ photo_stats' = IF obj.photo = <<>> THEN photo_stats
                          ELSE [photo_stats EXCEPT ![obj.round[1].photo_id] =
                                  FlushUpdate(@, obj.photo[1], obj.photo[2])]
  /\ c_pc' = [c_pc EXCEPT ![p] = "done"]
  /\ UNCHANGED <<now, c_req, c_obj, c_result, c_calls>>
  /\ UNCHANGED <<pow_vars, rl_vars, issue_vars, start_vars, upload_vars, fn_vars>>
  /\ UNCHANGED <<guesses, g_pc, g_req, g_obj, g_guess, g_result, g_maxed, g_calls>>

(* the response is sent; the session and the arguments are discarded *)
CompleteReturn(p) ==
  /\ c_pc[p] = "done"
  /\ c_pc' = [c_pc EXCEPT ![p] = "idle"]
  /\ c_req' = [c_req EXCEPT ![p] = NoCompleteRequest]
  /\ c_obj' = [c_obj EXCEPT ![p] = NoCompleteObj]
  /\ c_result' = [c_result EXCEPT ![p] = "none"]
  /\ UNCHANGED <<now, players, photo_stats, c_calls>>
  /\ UNCHANGED <<pow_vars, rl_vars, game_vars, issue_vars, fn_vars>>

(* a request of a worker that serves no other request *)
GuessFetchFree(p, round_id, player_id, body) ==
  /\ c_pc[p] = "idle"
  /\ g_calls + c_calls < MaxGameCalls
  /\ GuessFetch(p, round_id, player_id, body)

CompleteFetchFree(p, round_id, player_id) ==
  /\ g_calls + c_calls < MaxGameCalls
  /\ CompleteFetch(p, round_id, player_id)

(* requests that start while no other request is in flight *)
GuessFetchAlone(p, round_id, player_id, body) ==
  /\ \A q \in Procs : c_pc[q] = "idle"
  /\ g_calls + c_calls < MaxGameCalls
  /\ GuessFetchSeq(p, round_id, player_id, body)

CompleteFetchAlone(p, round_id, player_id) ==
  /\ \A q \in Procs : c_pc[q] = "idle" /\ g_pc[q] = "idle"
  /\ g_calls + c_calls < MaxGameCalls
  /\ CompleteFetch(p, round_id, player_id)

(* --------------------- create_challenge, per request ------------------- *)
(* Settings.pow_*: the defaults, and the values the Field ranges accept    *)
DefaultSettings ==
  [ pow_difficulty                |-> 4,
    pow_timeout_seconds           |-> 10,
    pow_low_power_difficulty      |-> 2,
    pow_low_power_timeout_seconds |-> 30 ]

(* the two difficulties over their whole ranges, the two timeouts at both  *)
(* ends of their ranges and at the default                                 *)
AcceptedSettings ==
  [ pow_difficulty                : 2..6,
    pow_timeout_seconds           : {5, 10, 60},
    pow_low_power_difficulty      : 1..4,
    pow_low_power_timeout_seconds : {10, 30, 120} ]

(* the limit and the window of _check_challenge_rate_limit *)
CHALLENGE_LIMIT == 10
CHALLENGE_WINDOW_SECONDS == 900

(* the ids a challenge can be issued under, and the amount by which the    *)
(* clock advances between requests                                         *)
IssuedIds == 1..MaxIssued
IssueTickSeconds == 900

(* the rows of a digest with created_at >= window_start *)
ChallengesSince(ip_hash, window_start) ==
  {c \in DOMAIN challenges :
     /\ challenges[c].client_ip_hash = ip_hash
     /\ challenges[c].created_at >= window_start}

NoIssueRequest == [client_ip |-> "10.0.0.1", low_power |-> FALSE]

(* lines 63-66 and 245-252: hash the address, window_start = now - 15 min, *)
(* SELECT the number of rows                                               *)
IssueCount(p, client_ip, low_power) ==
  /\ i_pc[p] = "idle"
  /\ Cardinality(DOMAIN challenges) < MaxIssued
  /\ i_req' = [i_req EXCEPT ![p] = [client_ip |-> client_ip, low_power |-> low_power]]
  /\ i_count' = [i_count EXCEPT ![p] =
                   Cardinality(ChallengesSince(hash_ip(client_ip),
                                               now - Seconds(CHALLENGE_WINDOW_SECONDS)))]
  /\ i_pc' = [i_pc EXCEPT ![p] = "counted"]
  /\ i_result' = [i_result EXCEPT ![p] = "pending"]
  /\ UNCHANGED <<now, i_row, settings>>
  /\ UNCHANGED <<pow_vars, rl_vars, game_vars, stat_vars, fn_vars>>

(* lines 254-266 and 68-84: at the limit raise RateLimitError, else create *)
(* the challenge in the session and flush                                  *)
IssueCreate(p) ==
  /\ i_pc[p] = "counted"
  /\ IF i_count[p] >= CHALLENGE_LIMIT
     THEN /\ i_result' = [i_result EXCEPT ![p] = "RateLimitExceeded"]
          /\ i_pc' = [i_pc EXCEPT ![p] = "done"]
          /\ UNCHANGED i_row
     ELSE \E nonce \in ChallengeNonces :
            LET req == i_req[p]
                difficulty == IF req.low_power THEN settings.pow_low_power_difficulty
                              ELSE settings.pow_difficulty
                ttl == IF req.low_power THEN settings.pow_low_power_timeout_seconds
                       ELSE settings.pow_timeout_seconds
            IN /\ i_row' = [i_row EXCEPT ![p] =
                              <<ChallengeCreate(req.client_ip, difficulty, ttl, nonce, now)>>]
               /\ i_result' = [i_result EXCEPT ![p] = "ok"]
               /\ i_pc' = [i_pc EXCEPT ![p] = "flushed"]
  /\ UNCHANGED <<now, i_req, i_count, settings>>
  /\ UNCHANGED <<pow_vars, rl_vars, game_vars, stat_vars, fn_vars>>

(* the caller's session.commit(): the INSERT becomes visible *)
IssueCommit(p) ==
  /\ i_pc[p] = "flushed"
  /\ \E c \in IssuedIds \ DOMAIN challenges :
       /\ \A d \in IssuedIds \ DOMAIN challenges : c <= d
       /\ challenges' = [d \in DOMAIN challenges \cup {c} |->
                           IF d = c THEN i_row[p][1] ELSE challenges[d]]
  /\ i_pc' = [i_pc EXCEPT ![p] = "done"]
  /\ UNCHANGED <<now, i_req, i_count, i_row, i_result, settings>>
  /\ UNCHANGED <<v_pc, v_req, v_obj, v_chk, v_result, v_hist, v_calls, v_audit, audit_log>>
  /\ UNCHANGED <<pcl_vars, rl_vars, game_vars, stat_vars, fn_vars>>

(* the response is sent; the session and the arguments are discarded *)
IssueReturn(p) ==
  /\ i_pc[p] = "done"
  /\ i_pc' = [i_pc EXCEPT ![p] = "idle"]
  /\ i_req' = [i_req EXCEPT ![p] = NoIssueRequest]
  /\ i_count' = [i_count EXCEPT ![p] = 0]
  /\ i_row' = [i_row EXCEPT ![p] = <<>>]
  /\ i_result' = [i_result EXCEPT ![p] = "none"]
  /\ UNCHANGED <<now, settings>>
  /\ UNCHANGED <<pow_vars, rl_vars, game_vars, stat_vars, fn_vars>>

(* a request that starts while no other request is in flight *)
IssueCountSeq(p, client_ip, low_power) ==
  /\ \A q \in Procs : i_pc[q] = "idle"
  /\ IssueCount(p, client_ip, low_power)

(* a request in either mode, one at a time, while fewer than              *)
(* MaxConfigIssued challenges exist                                        *)
IssueCountConfig(p, client_ip, low_power) ==
  /\ Cardinality(DOMAIN challenges) < MaxConfigIssued
  /\ IssueCountSeq(p, client_ip, low_power)

(* time passes, IssueTickSeconds at a time *)
TickIssue ==
  /\ now < IssueMaxSteps * Seconds(IssueTickSeconds)
  /\ now' = now + Seconds(IssueTickSeconds)
  /\ UNCHANGED <<pow_vars, rl_vars, game_vars, stat_vars, issue_vars, fn_vars>>

(* ----------------------- initial values per component ------------------ *)
PowRequestsIdle ==
  /\ v_pc = [p \in Procs |-> "idle"]
  /\ v_req = [p \in Procs |-> NoRequest]
  /\ v_obj = [p \in Procs |-> <<>>]
  /\ v_chk = [p \in Procs |-> NoneTime]
  /\ v_result = [p \in Procs |-> "none"]
  /\ v_hist = [c \in ChallengeIds |-> 0]
  /\ v_calls = 0
  /\ v_audit = [p \in Procs |-> <<>>]
  /\ audit_log = {}
  /\ pcl_pc = "idle"
  /\ pcl_cutoff = NoneTime
  /\ pcl_deleted = 0
  /\ pcl_calls = 0

PowIdle == challenges = <<>> /\ PowRequestsIdle

RlRequestsIdle ==
  /\ rl_pc = [p \in Procs |-> "idle"]
  /\ rl_req = [p \in Procs |-> NoRlKey]
  /\ rl_now = [p \in Procs |-> NoneTime]
  /\ rl_obj = [p \in Procs |-> NoRlObj]
  /\ rl_branch = [p \in Procs |-> "none"]
  /\ rl_result = [p \in Procs |-> "none"]
  /\ rl_ret = [p \in Procs |-> <<>>]
  /\ rl_window = [k \in RlKeys |-> [calls |-> 0, ok |-> 0]]
  /\ rl_calls = 0
  /\ rl_audit = [p \in Procs |-> <<>>]
  /\ rl_log = <<>>
  /\ r_pc = [p \in Procs |-> "idle"]
  /\ r_req = [p \in Procs |-> NoRlKey]
  /\ r_obj = [p \in Procs |-> <<>>]
  /\ r_entry = [p \in Procs |-> <<>>]
  /\ r_ret = [p \in Procs |-> <<>>]
  /\ r_calls = 0
  /\ cl_pc = "idle"
  /\ cl_cutoff = NoneTime
  /\ cl_entries = <<>>
  /\ cl_deleted = 0
  /\ cl_calls = 0

RlIdle == rate_limits = <<>> /\ RlRequestsIdle

UploadRequestsIdle ==
  /\ u_pc = [p \in Procs |-> "idle"]
  /\ u_req = [p \in Procs |-> NoUpload]
  /\ u_photo = [p \in Procs |-> <<>>]
  /\ u_result = [p \in Procs |-> "none"]
  /\ u_calls = 0

UploadIdle == photos = <<>> /\ UploadRequestsIdle

StartRequestsIdle ==
  /\ s_pc = [p \in Procs |-> "idle"]
  /\ s_req = [p \in Procs |-> "player-1"]
  /\ s_recent = [p \in Procs |-> {}]
  /\ s_photo = [p \in Procs |-> <<>>]
  /\ s_result = [p \in Procs |-> "none"]
  /\ s_calls = 0

StartIdle == StartRequestsIdle /\ UploadIdle

GameIdle ==
  /\ rounds = <<>>
  /\ guesses = <<>>
  /\ g_pc = [p \in Procs |-> "idle"]
  /\ g_req = [p \in Procs |-> NoGuessRequest]
  /\ g_obj = [p \in Procs |-> <<>>]
  /\ g_guess = [p \in Procs |-> <<>>]
  /\ g_result = [p \in Procs |-> "none"]
  /\ g_maxed = {}
  /\ g_calls = 0
  /\ photo_status = [ph \in PhotoIds |-> "approved"]
  /\ StartIdle

StatIdle ==
  /\ players = [pl \in Players |-> [total_score |-> 0, games_played |-> 0,
                                    last_active |-> 0]]
  /\ photo_stats = [ph \in PhotoIds |-> [times_used |-> 0, total_score_awarded |-> 0]]
  /\ c_pc = [p \in Procs |-> "idle"]
  /\ c_req = [p \in Procs |-> NoCompleteRequest]
  /\ c_obj = [p \in Procs |-> NoCompleteObj]
  /\ c_result = [p \in Procs |-> "none"]
  /\ c_calls = 0

IssueRequestsIdle ==
  /\ i_pc = [p \in Procs |-> "idle"]
  /\ i_req = [p \in Procs |-> NoIssueRequest]
  /\ i_count = [p \in Procs |-> 0]
  /\ i_row = [p \in Procs |-> <<>>]
  /\ i_result = [p \in Procs |-> "none"]

IssueIdle == IssueRequestsIdle /\ settings = DefaultSettings

(* profanity_filter as imported: PROFANITY_WORDS is the literal { } of      *)
(* lines 22-25, which Python builds as an empty dict, and nothing is cached *)
FilterIdle ==
  /\ PROFANITY_WORDS = [kind |-> "dict", words |-> {}]
  /\ contains_profanity_cache = {}
  /\ filter_calls = 0

FnIdle == f_args = <<>> /\ f_ret = <<>> /\ FilterIdle

(* ------------------------- specification: PoW -------------------------- *)
InitPow == now = 0 /\ PowIdle /\ RlIdle /\ GameIdle /\ StatIdle /\ IssueIdle /\ FnIdle

TickPow == Tick(PowMaxTime) /\ UNCHANGED <<pow_vars, rl_vars, game_vars, stat_vars, issue_vars, fn_vars>>

NextPow ==
  \/ TickPow
  \/ \E ip \in ClientIps, low_power \in BOOLEAN : CreateChallenge(ip, low_power)
  \/ \E p \in Procs, c \in ChallengeIds \cup {UnknownChallengeId},
        sn \in SolutionNonces, ip \in ClientIps : VerifyFetch(p, c, sn, ip)
  \/ \E p \in Procs : VerifyChecks(p)
  \/ \E p \in Procs : VerifyHash(p)
  \/ \E p \in Procs : VerifyCommit(p)
  \/ \E p \in Procs : VerifyReturn(p)

SpecPow == InitPow /\ [][NextPow]_vars

(* ------------- specification: cleanup_expired (challenges) ------------- *)
StoredChallengeIds == 1..MaxStoredChallenges

(* the rows the table can hold when the sweep starts: challenges issued up *)
(* to PowCleanMaxAge ticks ago, unsolved or solved when they were issued   *)
StoredChallenges ==
  LET issued(a) == ChallengeCreate("192.168.1.1", pow_difficulty, pow_timeout_seconds,
                                   "00112233445566778899aabbccddeeff", -a)
  IN {issued(a) : a \in 0..PowCleanMaxAge}
     \cup {mark_solved(issued(a), "60803", -a) : a \in 0..PowCleanMaxAge}

InitPowClean ==
  /\ now = 0
  /\ PowRequestsIdle /\ RlIdle /\ GameIdle /\ StatIdle /\ IssueIdle /\ FnIdle
  /\ \E ids \in SUBSET StoredChallengeIds : challenges \in [ids -> StoredChallenges]

(* the sweep interleaves with verify_solution requests *)
NextPowClean ==
  \/ TickPow
  \/ PowCleanCutoff
  \/ PowCleanDelete
  \/ PowCleanReturn
  \/ \E p \in Procs, c \in ChallengeIds, sn \in SolutionNonces, ip \in ClientIps :
       VerifyFetchClean(p, c, sn, ip)
  \/ \E p \in Procs : VerifyChecks(p)
  \/ \E p \in Procs : VerifyHash(p)
  \/ \E p \in Procs : VerifyCommit(p)
  \/ \E p \in Procs : VerifyReturn(p)

SpecPowClean == InitPowClean /\ [][NextPowClean]_vars

(* --------------- specification: what the tables hold ------------------- *)
(* no verify_solution and no check_rate_limit request is in flight *)
NoneInFlight == \A q \in Procs : v_pc[q] = "idle" /\ rl_pc[q] = "idle"

(* requests to both services, one at a time *)
NextPersist ==
  \/ TickPow
  \/ \E ip \in ClientIps, lp \in BOOLEAN : NoneInFlight /\ CreateChallenge(ip, lp)
  \/ \E p \in Procs, c \in ChallengeIds \cup {UnknownChallengeId},
        sn \in SolutionNonces, ip \in ClientIps :
       NoneInFlight /\ VerifyFetch(p, c, sn, ip)
  \/ \E p \in Procs : VerifyChecks(p)
  \/ \E p \in Procs : VerifyHash(p)
  \/ \E p \in Procs : VerifyCommit(p)
  \/ \E p \in Procs : VerifyReturn(p)
  \/ \E p \in Procs, ip \in ClientIps, ep \in RlEndpoints :
       NoneInFlight /\ RlSelect(p, ip, ep)
  \/ \E p \in Procs : RlApply(p)
  \/ \E p \in Procs : RlWrite(p)
  \/ \E p \in Procs : RlReturn(p)

SpecPersist == InitPow /\ [][NextPersist]_vars

(* -------------------- specifications: rate limiter --------------------- *)
InitRl == now = 0 /\ PowIdle /\ RlIdle /\ GameIdle /\ StatIdle /\ IssueIdle /\ FnIdle

TickRl == Tick(RlMaxTime) /\ UNCHANGED <<pow_vars, rl_vars, game_vars, stat_vars, issue_vars, fn_vars>>

(* requests of any number of clients interleave *)
NextRl ==
  \/ TickRl
  \/ \E p \in Procs, ip \in ClientIps, ep \in RlEndpoints : RlSelect(p, ip, ep)
  \/ \E p \in Procs : RlApply(p)
  \/ \E p \in Procs : RlWrite(p)
  \/ \E p \in Procs : RlReturn(p)

SpecRl == InitRl /\ [][NextRl]_vars

(* one request at a time *)
NextRlSeq ==
  \/ TickRl
  \/ \E p \in Procs, ip \in ClientIps, ep \in RlEndpoints : RlSelectSeq(p, ip, ep)
  \/ \E p \in Procs : RlApply(p)
  \/ \E p \in Procs : RlWrite(p)
  \/ \E p \in Procs : RlReturn(p)

SpecRlSeq == InitRl /\ [][NextRlSeq]_vars

(* ---------------- specification: bursts of requests ------------------- *)
(* requests of one client interleave, the table holding any row of an     *)
(* earlier run for the key; the successful calls are recorded             *)
InitBurst ==
  /\ now = 0
  /\ PowIdle /\ RlRequestsIdle /\ GameIdle /\ StatIdle /\ IssueIdle /\ FnIdle
  /\ \/ rate_limits = <<>>
     \/ \E ep \in RlEndpoints, c \in 1..RlLimit :
          rate_limits = [k \in {<<hash_ip("192.168.1.1"), ep>>} |->
                           [RateLimitEntryCreate(RlWindowSeconds, 0) EXCEPT !.request_count = c]]

NextBurst ==
  \/ TickRl
  \/ \E p \in Procs, ep \in RlEndpoints : RlSelectUpTo(p, "192.168.1.1", ep, MaxBurstCalls)
  \/ \E p \in Procs : RlApply(p)
  \/ \E p \in Procs : RlWriteLogged(p)
  \/ \E p \in Procs : RlReturn(p)

SpecBurst == InitBurst /\ [][NextBurst]_vars

(* one request at a time *)
NextBurstSeq ==
  \/ TickRl
  \/ \E p \in Procs, ep \in RlEndpoints :
       /\ \A q \in Procs : rl_pc[q] = "idle"
       /\ RlSelectUpTo(p, "192.168.1.1", ep, MaxBurstCalls)
  \/ \E p \in Procs : RlApply(p)
  \/ \E p \in Procs : RlWriteLogged(p)
  \/ \E p \in Procs : RlReturn(p)

SpecBurstSeq == InitBurst /\ [][NextBurstSeq]_vars

(* ------------------- specification: get_remaining --------------------- *)
(* the one client whose key the requests use *)
RemClientIps == {"192.168.1.1"}

(* the rows the table can hold for the key when the service starts: rows   *)
(* of earlier runs, also rows counted under a larger limit of RATE_LIMITS  *)
StoredEntries ==
  {[RateLimitEntryCreate(RlWindowSeconds, 0) EXCEPT !.request_count = c] :
     c \in 1..MaxStoredCount}

InitRemaining ==
  /\ now = 0
  /\ PowIdle /\ RlRequestsIdle /\ GameIdle /\ StatIdle /\ IssueIdle /\ FnIdle
  /\ \/ rate_limits = <<>>
     \/ \E ip \in RemClientIps, ep \in RlEndpoints, entry \in StoredEntries :
          rate_limits = [k \in {<<hash_ip(ip), ep>>} |-> entry]

(* check_rate_limit and get_remaining requests interleave *)
NextRemaining ==
  \/ TickRl
  \/ \E p \in Procs, ip \in RemClientIps, ep \in RlEndpoints : RlSelectFree(p, ip, ep)
  \/ \E p \in Procs : RlApply(p)
  \/ \E p \in Procs : RlWrite(p)
  \/ \E p \in Procs : RlReturn(p)
  \/ \E p \in Procs, ip \in RemClientIps, ep \in RlEndpoints : RemSelect(p, ip, ep)
  \/ \E p \in Procs : RemCompute(p)
  \/ \E p \in Procs : RemReturn(p)

SpecRemaining == InitRemaining /\ [][NextRemaining]_vars

(* ----------------- specification: cleanup_expired --------------------- *)
(* the rows the table can hold when the sweep starts: windows opened up to *)
(* CleanMaxAge ticks ago                                                   *)
CleanStoredEntries ==
  {[RateLimitEntryCreate(RlWindowSeconds, 0) EXCEPT !.window_start = -a] :
     a \in 0..CleanMaxAge}

InitClean ==
  /\ now = 0
  /\ PowIdle /\ RlRequestsIdle /\ GameIdle /\ StatIdle /\ IssueIdle /\ FnIdle
  /\ \E keys \in SUBSET RlKeys : rate_limits \in [keys -> CleanStoredEntries]

(* the sweep interleaves with check_rate_limit requests *)
NextClean ==
  \/ TickRl
  \/ \E p \in Procs, ip \in RemClientIps, ep \in RlEndpoints : RlSelectClean(p, ip, ep)
  \/ \E p \in Procs : RlApply(p)
  \/ \E p \in Procs : RlWrite(p)
  \/ \E p \in Procs : RlReturn(p)
  \/ CleanSelect
  \/ CleanDelete
  \/ CleanReturn

SpecClean == InitClean /\ [][NextClean]_vars

(* the sweep runs while no request is in flight, and no request starts     *)
(* while it runs                                                           *)
NextCleanSeq ==
  \/ TickRl
  \/ \E p \in Procs, ip \in RemClientIps, ep \in RlEndpoints : RlSelectNoSweep(p, ip, ep)
  \/ \E p \in Procs : RlApply(p)
  \/ \E p \in Procs : RlWrite(p)
  \/ \E p \in Procs : RlReturn(p)
  \/ CleanSelectSeq
  \/ CleanDelete
  \/ CleanReturn

SpecCleanSeq == InitClean /\ [][NextCleanSeq]_vars

(* ------------------------ specifications: rounds ----------------------- *)
InitRound == now = 0 /\ PowIdle /\ RlIdle /\ GameIdle /\ StatIdle /\ IssueIdle /\ FnIdle

TickRound == Tick(RoundMaxTime) /\ UNCHANGED <<pow_vars, rl_vars, game_vars, stat_vars, issue_vars, fn_vars>>

(* requests interleave *)
NextRound ==
  \/ TickRound
  \/ \E player_id \in Players : StartRound(player_id)
  \/ \E p \in Procs, r \in RoundIds \cup {UnknownRoundId}, player_id \in Players,
        body \in GuessBodies :
       GuessFetch(p, r, player_id, body)
  \/ \E p \in Procs : GuessChecks(p)
  \/ \E p \in Procs : GuessRecord(p)
  \/ \E p \in Procs : GuessCommit(p)
  \/ \E p \in Procs : GuessReturn(p)

SpecRound == InitRound /\ [][NextRound]_vars

(* one request at a time *)
NextRoundSeq ==
  \/ TickRound
  \/ \E player_id \in Players : StartRound(player_id)
  \/ \E p \in Procs, r \in RoundIds \cup {UnknownRoundId}, player_id \in Players,
        body \in GuessBodies :
       GuessFetchSeq(p, r, player_id, body)
  \/ \E p \in Procs : GuessChecks(p)
  \/ \E p \in Procs : GuessRecord(p)
  \/ \E p \in Procs : GuessCommit(p)
  \/ \E p \in Procs : GuessReturn(p)

SpecRoundSeq == InitRound /\ [][NextRoundSeq]_vars

(* --------------------- specification: start_round --------------------- *)
(* the rounds the table can hold when the requests start: one round per    *)
(* tick before the start, each on an approved photo                        *)
StoredRounds(n, status) ==
  {rs \in [1..n -> {GameRoundCreate(pl, ph, round_duration_seconds,
                                     max_guesses_per_round, 0) :
                      pl \in Players,
                      ph \in {x \in StartPhotoIds : status[x] = "approved"}}] : TRUE}

StoredRoundsAt(rs) ==
  [i \in DOMAIN rs |->
     [rs[i] EXCEPT !.created_at = i - Len(rs) - 1,
                   !.started_at = i - Len(rs) - 1,
                   !.expires_at = i - Len(rs) - 1 + Seconds(round_duration_seconds)]]

InitStart ==
  /\ now = 0
  /\ PowIdle /\ RlIdle /\ StatIdle /\ IssueIdle /\ FnIdle
  /\ guesses = <<>>
  /\ g_pc = [p \in Procs |-> "idle"]
  /\ g_req = [p \in Procs |-> NoGuessRequest]
  /\ g_obj = [p \in Procs |-> <<>>]
  /\ g_guess = [p \in Procs |-> <<>>]
  /\ g_result = [p \in Procs |-> "none"]
  /\ g_maxed = {}
  /\ g_calls = 0
  /\ StartIdle
  /\ photo_status \in [StartPhotoIds -> {"approved", "pending"}]
  /\ \E n \in 0..MaxStoredRounds :
       \E rs \in StoredRounds(n, photo_status) : rounds = StoredRoundsAt(rs)

(* start_round requests of any players interleave *)
NextStart ==
  \/ TickRound
  \/ \E p \in Procs, pl \in Players \cup {UnknownPlayer} : StartRecent(p, pl)
  \/ \E p \in Procs : StartSelect(p)
  \/ \E p \in Procs : StartReturn(p)

SpecStart == InitStart /\ [][NextStart]_vars

(* one request at a time *)
NextStartSeq ==
  \/ TickRound
  \/ \E p \in Procs, pl \in Players \cup {UnknownPlayer} : StartRecentSeq(p, pl)
  \/ \E p \in Procs : StartSelect(p)
  \/ \E p \in Procs : StartReturn(p)

SpecStartSeq == InitStart /\ [][NextStartSeq]_vars

(* ---------------------- specification: uploads ------------------------- *)
(* the rows of the table when the uploads start: digests are unique (the   *)
(* column's constraint), a perceptual hash is NULL, a hash string or a     *)
(* string that is no hexadecimal number, and no two rows are duplicates    *)
(* of each other                                                           *)
InvalidHash == [i \in 1..HashHexLen |-> NonHexChar]

(* two hash strings that both parse and lie within the threshold *)
SimilarHashes(a, b) ==
  /\ hex_to_hash(a) # <<>>
  /\ hex_to_hash(b) # <<>>
  /\ HammingDistance(hex_to_hash(a)[1], hex_to_hash(b)[1]) <= threshold

StoredPhotoRows ==
  [file_hash : FileHashes,
   perceptual_hash : {<<>>, <<InvalidHash>>} \cup {<<h>> : h \in UploadHashes},
   status : {"approved"}]

StoredPhotos(n) ==
  {ps \in [1..n -> StoredPhotoRows] :
     \A a, b \in 1..n :
       a # b => /\ ps[a].file_hash # ps[b].file_hash
                /\ \/ ps[a].perceptual_hash = <<>>
                   \/ ps[b].perceptual_hash = <<>>
                   \/ ~SimilarHashes(ps[a].perceptual_hash[1], ps[b].perceptual_hash[1])}

InitUpload ==
  /\ now = 0
  /\ PowIdle /\ RlIdle /\ StatIdle /\ IssueIdle /\ FnIdle
  /\ rounds = <<>>
  /\ guesses = <<>>
  /\ g_pc = [p \in Procs |-> "idle"]
  /\ g_req = [p \in Procs |-> NoGuessRequest]
  /\ g_obj = [p \in Procs |-> <<>>]
  /\ g_guess = [p \in Procs |-> <<>>]
  /\ g_result = [p \in Procs |-> "none"]
  /\ g_maxed = {}
  /\ g_calls = 0
  /\ photo_status = [ph \in PhotoIds |-> "approved"]
  /\ StartRequestsIdle
  /\ UploadRequestsIdle
  /\ \E n \in 0..MaxStoredPhotos : photos \in StoredPhotos(n)

(* upload_photo requests interleave *)
NextUpload ==
  \/ \E p \in Procs, file_hash \in FileHashes, perceptual_hash \in UploadHashes,
        moderation_result \in ModerationResults :
       UploadProcess(p, file_hash, perceptual_hash, moderation_result)
  \/ \E p \in Procs : UploadCheckHash(p)
  \/ \E p \in Procs : UploadCheckSimilar(p)
  \/ \E p \in Procs : UploadCreate(p)
  \/ \E p \in Procs : UploadReturn(p)

SpecUpload == InitUpload /\ [][NextUpload]_vars

(* ------------------ specifications: rounds and stats ------------------- *)
InitGame == now = 0 /\ PowIdle /\ RlIdle /\ GameIdle /\ StatIdle /\ IssueIdle /\ FnIdle

TickGame == Tick(RoundMaxTime) /\ UNCHANGED <<pow_vars, rl_vars, game_vars, stat_vars, issue_vars, fn_vars>>

(* submit_guess and complete_round requests interleave *)
NextGame ==
  \/ TickGame
  \/ \E player_id \in Players : StartRound(player_id)
  \/ \E p \in Procs, r \in RoundIds \cup {UnknownRoundId}, player_id \in Players,
        body \in GuessBodies :
       GuessFetchFree(p, r, player_id, body)
  \/ \E p \in Procs : GuessChecks(p)
  \/ \E p \in Procs : GuessRecord(p)
  \/ \E p \in Procs : GuessCommit(p)
  \/ \E p \in Procs : GuessReturn(p)
  \/ \E p \in Procs, r \in RoundIds \cup {UnknownRoundId}, player_id \in Players :
       CompleteFetchFree(p, r, player_id)
  \/ \E p \in Procs : CompleteCheck(p)
  \/ \E p \in Procs : CompletePlayer(p)
  \/ \E p \in Procs : CompletePhoto(p)
  \/ \E p \in Procs : CompleteCommit(p)
  \/ \E p \in Procs : CompleteReturn(p)

SpecGame == InitGame /\ [][NextGame]_vars

(* one request at a time *)
NextGameSeq ==
  \/ TickGame
  \/ \E player_id \in Players : StartRound(player_id)
  \/ \E p \in Procs, r \in RoundIds \cup {UnknownRoundId}, player_id \in Players,
        body \in GuessBodies :
       GuessFetchAlone(p, r, player_id, body)
  \/ \E p \in Procs : GuessChecks(p)
  \/ \E p \in Procs : GuessRecord(p)
  \/ \E p \in Procs : GuessCommit(p)
  \/ \E p \in Procs : GuessReturn(p)
  \/ \E p \in Procs, r \in RoundIds \cup {UnknownRoundId}, player_id \in Players :
       CompleteFetchAlone(p, r, player_id)
  \/ \E p \in Procs : CompleteCheck(p)
  \/ \E p \in Procs : CompletePlayer(p)
  \/ \E p \in Procs : CompletePhoto(p)
  \/ \E p \in Procs : CompleteCommit(p)
  \/ \E p \in Procs : CompleteReturn(p)

SpecGameSeq == InitGame /\ [][NextGameSeq]_vars

(* ------------------ specifications: challenge issuance ----------------- *)
InitIssue == now = 0 /\ PowIdle /\ RlIdle /\ GameIdle /\ StatIdle /\ IssueIdle /\ FnIdle

(* the issuing client; requests interleave *)
IssueClientIps == {"192.168.1.1"}

NextIssue ==
  \/ TickIssue
  \/ \E p \in Procs, ip \in IssueClientIps : IssueCount(p, ip, FALSE)
  \/ \E p \in Procs : IssueCreate(p)
  \/ \E p \in Procs : IssueCommit(p)
  \/ \E p \in Procs : IssueReturn(p)

SpecIssue == InitIssue /\ [][NextIssue]_vars

(* one request at a time *)
NextIssueSeq ==
  \/ TickIssue
  \/ \E p \in Procs, ip \in IssueClientIps : IssueCountSeq(p, ip, FALSE)
  \/ \E p \in Procs : IssueCreate(p)
  \/ \E p \in Procs : IssueCommit(p)
  \/ \E p \in Procs : IssueReturn(p)

SpecIssueSeq == InitIssue /\ [][NextIssueSeq]_vars

(* ------------- specification: create_challenge, any settings ---------- *)
(* the service is built with any Settings object the Field ranges accept   *)
InitConfig ==
  /\ now = 0
  /\ PowIdle /\ RlIdle /\ GameIdle /\ StatIdle /\ IssueRequestsIdle /\ FnIdle
  /\ settings \in AcceptedSettings

NextConfig ==
  \/ TickIssue
  \/ \E p \in Procs, ip \in IssueClientIps, low_power \in BOOLEAN :
       IssueCountConfig(p, ip, low_power)
  \/ \E p \in Procs : IssueCreate(p)
  \/ \E p \in Procs : IssueCommit(p)
  \/ \E p \in Procs : IssueReturn(p)

SpecConfig == InitConfig /\ [][NextConfig]_vars


(* ---------------- specification: _score_aircraft_guess ----------------- *)
(* the strings a guess and an aircraft type are drawn from *)
ScoreChars == {"a", "B", " "}
ScoreStrings == UNION {[1..n -> ScoreChars] : n \in 0..MaxScoreLen}

InitAircraft ==
  /\ now = 0
  /\ PowIdle /\ RlIdle /\ GameIdle /\ StatIdle /\ IssueIdle
  /\ f_args \in ScoreStrings \X ScoreStrings
  /\ f_ret = <<>>
  /\ FilterIdle

(* the call _score_aircraft_guess(guess, actual) *)
ScoreAircraft ==
  /\ f_ret = <<>>
  /\ f_ret' = <<score_aircraft_guess(f_args[1], f_args[2])>>
  /\ UNCHANGED <<now, f_args, filter_vars, pow_vars, rl_vars, game_vars, stat_vars, issue_vars>>

NextAircraft == ScoreAircraft

SpecAircraft == InitAircraft /\ [][NextAircraft]_vars

(* ------------------------- claims: verify_solution --------------------- *)
(* what the finished call of p saw: the loaded row and the request *)
VerifyDone(p) == v_pc[p] = "done"
SawChallenge(p) == VerifyDone(p) /\ v_obj[p] # <<>>
SawSolved(p) == SawChallenge(p) /\ is_solved(v_obj[p][1])
SawExpired(p) == SawChallenge(p) /\ is_expired(v_obj[p][1], v_chk[p])
SawOtherDigest(p) == SawChallenge(p) /\ v_obj[p][1].client_ip_hash # v_req[p].ip_hash
SentValidNonce(p) ==
  /\ SawChallenge(p)
  /\ verify_pow_hash(v_obj[p][1].challenge_nonce, v_req[p].solution_nonce,
                     v_obj[p][1].difficulty)

(* C1: once a verify_solution call has succeeded for a challenge (its      *)
(* request has committed), every call for that challenge started later     *)
(* fails with ChallengeAlreadyUsed, and the stored solved_nonce and        *)
(* solved_at never change again.                                           *)
C1_SolvedOnceForever ==
  [][ /\ \A c \in DOMAIN challenges :
           is_solved(challenges[c]) =>
             /\ c \in DOMAIN challenges'
             /\ challenges'[c].solved_nonce = challenges[c].solved_nonce
             /\ challenges'[c].solved_at = challenges[c].solved_at
      /\ \A p \in Procs :
           (v_req'[p].after_success /\ v_result'[p] # "pending")
             => v_result'[p] = "ChallengeAlreadyUsed" ]_vars

(* C2: at most one verify_solution call per challenge ever returns True,   *)
(* whatever the interleaving of the calls.                                 *)
C2_AtMostOneSuccess == \A c \in ChallengeIds : v_hist[c] <= 1

(* C7: a call that finds the challenge unsolved and unexpired and carries  *)
(* a nonce satisfying the hash rule, but comes from another digest than    *)
(* the challenge was issued to, fails with IpMismatch.                     *)
C7_WrongDigestIsIpMismatch ==
  \A p \in Procs :
    (/\ SawChallenge(p) /\ ~SawSolved(p) /\ ~SawExpired(p)
     /\ SentValidNonce(p) /\ SawOtherDigest(p))
      => v_result[p] = "IpMismatch"

C7_Witness ==
  \E p \in Procs :
    /\ SawChallenge(p) /\ ~SawSolved(p) /\ ~SawExpired(p)
    /\ SentValidNonce(p) /\ SawOtherDigest(p)
    /\ v_result[p] = "IpMismatch"

RlDone(p) == rl_pc[p] = "done"

(* C3: of the calls for one key that interleave inside one window, the     *)
(* first RlLimit to finish succeed and all others fail with                *)
(* RateLimitExceeded: never more than RlLimit succeed.                     *)
C3_ExactlyLimitSucceed ==
  \A k \in RlKeys :
    /\ rl_window[k].ok <= rl_limit(k[2])
    /\ rl_window[k].ok = Min(rl_window[k].calls, rl_limit(k[2]))

(* C4: calls made one after the other inside one window: calls 1..RlLimit  *)
(* succeed, every later call fails with RateLimitExceeded, and its         *)
(* retry_after is max(1, window_end - now) in whole seconds, within        *)
(* [1, window_seconds].                                                    *)
C4_SequentialLimit ==
  \A p \in Procs :
    RlDone(p) =>
      LET k == rl_req[p]
          n == rl_window[k].calls
      IN /\ n <= rl_limit(k[2]) => rl_result[p] = "ok"
         /\ n > rl_limit(k[2]) =>
              /\ rl_result[p] = "RateLimitExceeded"
              /\ rl_ret[p] = <<Max(1, IntTrunc(window_end(rate_limits[k]) - rl_now[p],
                                               TicksPerSecond))>>
              /\ rl_ret[p][1] >= 1
              /\ rl_ret[p][1] <= rl_window_seconds(k[2])

(* C9: a call whose now is past window_end succeeds and leaves the key     *)
(* with request_count = 1 and window_start = now; a call whose now equals  *)
(* window_end is counted in the old window.                                *)
C9_ExpiryBoundary ==
  \A p \in Procs :
    (RlDone(p) /\ rl_obj[p].loaded # <<>>) =>
      LET k == rl_req[p]
          old == rl_obj[p].loaded[1]
      IN /\ rl_now[p] > window_end(old) =>
              /\ rl_result[p] = "ok"
              /\ rate_limits[k].request_count = 1
              /\ rate_limits[k].window_start = rl_now[p]
         /\ rl_now[p] = window_end(old) =>
              /\ rate_limits[k].window_start = old.window_start
              /\ rl_result[p] = "ok" => rate_limits[k].request_count = old.request_count + 1

(* C10: two first requests for one key that overlap end with one window    *)
(* holding request_count = 2, and neither fails with anything but          *)
(* RateLimitExceeded.                                                      *)
C10_ConcurrentFirstRequests ==
  /\ \A p \in Procs : RlDone(p) => rl_result[p] \in {"ok", "RateLimitExceeded"}
  /\ \A p, q \in Procs :
       (/\ p # q /\ RlDone(p) /\ RlDone(q) /\ rl_req[p] = rl_req[q]
        /\ rl_obj[p].loaded = <<>> /\ rl_obj[q].loaded = <<>>)
         => rate_limits[rl_req[p]].request_count = 2

(* ---------------- specification: _score_location_guess ----------------- *)
(* the distances of a guess from the airport, in whole km *)
DistancesKm == 0..MaxDistanceKm

InitLocation ==
  /\ now = 0
  /\ PowIdle /\ RlIdle /\ GameIdle /\ StatIdle /\ IssueIdle
  /\ f_args \in [airport_code : {<<>>, <<Str_EHAM>>},
                  airport_coords : AirportLookupResults,
                  distance_km : DistancesKm]
  /\ f_ret = <<>>
  /\ FilterIdle

(* the call _score_location_guess(session, guess_lat, guess_lon,           *)
(* airport_code)                                                           *)
ScoreLocation ==
  /\ f_ret = <<>>
  /\ f_ret' = <<score_location_guess_for(f_args.airport_code, f_args.airport_coords,
                                         f_args.distance_km)>>
  /\ UNCHANGED <<now, f_args, filter_vars, pow_vars, rl_vars, game_vars, stat_vars, issue_vars>>

NextLocation == ScoreLocation

SpecLocation == InitLocation /\ [][NextLocation]_vars

(* ------------------ specification: get_rate_limit ---------------------- *)
(* models/rate_limit.py lines 128-145: the entries of the dict in their    *)
(* insertion order, a pattern written as the sequence of its characters    *)
RATE_LIMITS ==
  << [pattern |-> <<"/", "p", "l", "a", "y", "e", "r", "s", "/", "r", "e", "g", "i", "s", "t", "e", "r">>,
      limits |-> <<3, 86400>>],
     [pattern |-> <<"/", "p", "l", "a", "y", "e", "r", "s", "/", "c", "h", "a", "l", "l", "e", "n", "g", "e">>,
      limits |-> <<10, 900>>],
     [pattern |-> <<"/", "p", "h", "o", "t", "o", "s", "/", "u", "p", "l", "o", "a", "d">>,
      limits |-> <<5, 3600>>],
     [pattern |-> <<"/", "g", "a", "m", "e", "/", "g", "u", "e", "s", "s">>,
      limits |-> <<100, 3600>>],
     [pattern |-> <<"/", "a", "i", "r", "p", "o", "r", "t", "s">>,
      limits |-> <<60, 60>>],
     [pattern |-> <<"/", "a", "i", "r", "p", "o", "r", "t", "s", "/", "s", "e", "a", "r", "c", "h">>,
      limits |-> <<60, 60>>],
     [pattern |-> <<"/", "p", "h", "o", "t", "o", "s", "/", "f", "l", "a", "g">>,
      limits |-> <<5, 86400>>] >>

(* pattern.rstrip("/") *)
RECURSIVE RStripSlash(_)
RStripSlash(s) ==
  IF s # <<>> /\ s[Len(s)] = "/" THEN RStripSlash(SubSeq(s, 1, Len(s) - 1)) ELSE s

(* s.startswith(prefix) *)
StartsWith(s, prefix) == Len(prefix) <= Len(s) /\ SubSeq(s, 1, Len(prefix)) = prefix

get_rate_limit_ExactOnly(endpoint) ==
  IF \E i \in DOMAIN RATE_LIMITS : RATE_LIMITS[i].pattern = endpoint
  THEN RATE_LIMITS[CHOOSE i \in DOMAIN RATE_LIMITS : RATE_LIMITS[i].pattern = endpoint].limits
  ELSE <<100, 60>>

(* get_rate_limit: the exact entry, else the first entry in the order of   *)
(* the dict whose pattern the endpoint starts with, else the default       *)
get_rate_limit(endpoint) ==
  LET matches == {i \in DOMAIN RATE_LIMITS :
                    StartsWith(endpoint, RStripSlash(RATE_LIMITS[i].pattern))}
  IN IF \E i \in DOMAIN RATE_LIMITS : RATE_LIMITS[i].pattern = endpoint
     THEN RATE_LIMITS[CHOOSE i \in DOMAIN RATE_LIMITS : RATE_LIMITS[i].pattern = endpoint].limits
     ELSE IF matches # {}
     THEN RATE_LIMITS[CHOOSE i \in matches : \A j \in matches : i <= j].limits
     ELSE <<100, 60>>

(* the endpoints looked up: the patterns, the patterns cut by a character, *)
(* paths outside the table and the empty path, each followed by any short  *)
(* suffix                                                                  *)
EndpointChars == {"/", "s", "1"}

EndpointSuffixes == UNION {[1..n -> EndpointChars] : n \in 0..MaxSuffixLen}

EndpointStems ==
  {RATE_LIMITS[i].pattern : i \in DOMAIN RATE_LIMITS}
    \cup {SubSeq(RATE_LIMITS[i].pattern, 1, Len(RATE_LIMITS[i].pattern) - 1) :
            i \in DOMAIN RATE_LIMITS}
    \cup {<<>>, <<"/", "g", "a", "m", "e">>}

LookupEndpoints == {stem \o suffix : stem \in EndpointStems, suffix \in EndpointSuffixes}

InitLookup ==
  /\ now = 0
  /\ PowIdle /\ RlIdle /\ GameIdle /\ StatIdle /\ IssueIdle
  /\ f_args \in LookupEndpoints
  /\ f_ret = <<>>
  /\ FilterIdle

(* the call get_rate_limit(endpoint) *)
LookupRateLimit ==
  /\ f_ret = <<>>
  /\ f_ret' = <<get_rate_limit(f_args)>>
  /\ UNCHANGED <<now, f_args, filter_vars, pow_vars, rl_vars, game_vars, stat_vars, issue_vars>>

NextLookup == LookupRateLimit

SpecLookup == InitLookup /\ [][NextLookup]_vars

(* -------------------------- claims: submit_guess ----------------------- *)
GuessDone(p) == g_pc[p] = "done"
(* the request of p is for an existing round and comes from its owner *)
GuessByOwner(p) == g_obj[p] # <<>> /\ g_obj[p][1].player_id = g_req[p].player_id

(* C5: guesses_made never exceeds max_guesses, in the table and in every   *)
(* session; the call whose guess is the last one allowed succeeds and      *)
(* leaves the round completed in that same call; every call of the owner   *)
(* started after that fails with RoundNotActive and records no Guess.      *)
C5_GuessesBounded ==
  /\ \A r \in DOMAIN rounds : rounds[r].guesses_made <= rounds[r].max_guesses
  /\ \A p \in Procs :
       /\ g_obj[p] # <<>> => g_obj[p][2].guesses_made <= g_obj[p][2].max_guesses
       /\ (/\ g_guess[p] # <<>>
           /\ g_obj[p][2].guesses_made = g_obj[p][2].max_guesses)
            => /\ g_result[p] = "ok"
               /\ g_obj[p][2].status = "completed"
               /\ GuessDone(p) => rounds[g_req[p].round_id].status = "completed"
       /\ (g_req[p].after_max /\ GuessByOwner(p))
            => /\ g_pc[p] \in {"fetched", "done"}
               /\ g_guess[p] = <<>>
               /\ GuessDone(p) => g_result[p] = "RoundNotActive"

C5_Witness ==
  \E p \in Procs :
    /\ GuessDone(p)
    /\ g_req[p].after_max
    /\ GuessByOwner(p)
    /\ g_result[p] = "RoundNotActive"
    /\ Len(guesses) = rounds[g_req[p].round_id].max_guesses

(* the best score of a kind over the committed guesses of a round *)
BestScore(r, kind) ==
  LET scores == {guesses[i][kind] : i \in {j \in 1..Len(guesses) : guesses[j].round_id = r}}
  IN IF scores = {} THEN 0 ELSE CHOOSE s \in scores : \A t \in scores : t <= s

(* C6: a round's aircraft_score and location_score are the best scores of  *)
(* its guesses so far, final_score is their sum, and final_score never     *)
(* decreases.                                                              *)
C6_BestOfEachScore ==
  /\ [](\A r \in DOMAIN rounds :
          /\ rounds[r].aircraft_score = BestScore(r, "aircraft_score")
          /\ rounds[r].location_score = BestScore(r, "location_score")
          /\ rounds[r].final_score = rounds[r].aircraft_score + rounds[r].location_score)
  /\ [][\A r \in DOMAIN rounds : rounds'[r].final_score >= rounds[r].final_score]_vars

(* the committed Guess rows of round r, as positions in the table *)
GuessesOf(r) == {i \in 1..Len(guesses) : guesses[i].round_id = r}

(* C11: under interleaved submit_guess calls a round has at most           *)
(* max_guesses Guess rows, guesses_made equals their number, and the rows  *)
(* carry the distinct guess_numbers 1..guesses_made.                       *)
C11_GuessRowsMatchCounter ==
  \A r \in DOMAIN rounds :
    /\ Cardinality(GuessesOf(r)) <= rounds[r].max_guesses
    /\ rounds[r].guesses_made = Cardinality(GuessesOf(r))
    /\ {guesses[i].guess_number : i \in GuessesOf(r)} = 1..rounds[r].guesses_made
    /\ \A i, j \in GuessesOf(r) : guesses[i].guess_number = guesses[j].guess_number => i = j

(* ----------------------- claims: rounds and stats ---------------------- *)
Terminal(round) == round.status \in {"completed", "abandoned"}

(* C12: once a round is completed or abandoned no step changes its status, *)
(* guesses_made, scores or best guesses, and no Guess is recorded for it.  *)
C12_TerminalRoundFrozen ==
  [][\A r \in DOMAIN rounds :
       Terminal(rounds[r]) =>
         /\ rounds'[r].status = rounds[r].status
         /\ rounds'[r].guesses_made = rounds[r].guesses_made
         /\ rounds'[r].final_score = rounds[r].final_score
         /\ rounds'[r].aircraft_score = rounds[r].aircraft_score
         /\ rounds'[r].location_score = rounds[r].location_score
         /\ rounds'[r].best_aircraft_guess = rounds[r].best_aircraft_guess
         /\ rounds'[r].best_location_lat = rounds[r].best_location_lat
         /\ rounds'[r].best_location_lon = rounds[r].best_location_lon
         /\ {i \in 1..Len(guesses') : guesses'[i].round_id = r} = GuessesOf(r)]_vars

(* C13: a submit_guess call on an active round whose clock read is past    *)
(* expires_at fails with RoundExpired, records no Guess, leaves            *)
(* guesses_made and the scores as they were, and the stored round is       *)
(* completed once the request has finished.                                *)
C13_ExpiredRoundCompleted ==
  \A p \in Procs :
    (GuessDone(p) /\ g_result[p] = "RoundExpired") =>
      LET stored == rounds[g_req[p].round_id]
          loaded == g_obj[p][1]
      IN /\ g_guess[p] = <<>>
         /\ stored.guesses_made = loaded.guesses_made
         /\ stored.final_score = loaded.final_score
         /\ stored.aircraft_score = loaded.aircraft_score
         /\ stored.location_score = loaded.location_score
         /\ stored.status = "completed"

(* the completed rounds of a player, and those shown on a photo *)
CompletedOf(player_id) ==
  {r \in DOMAIN rounds : rounds[r].player_id = player_id /\ rounds[r].status = "completed"}
CompletedOn(photo_id) ==
  {r \in DOMAIN rounds : rounds[r].photo_id = photo_id /\ rounds[r].status = "completed"}
RECURSIVE SumFinalScore(_)
SumFinalScore(rs) ==
  IF rs = {} THEN 0
  ELSE LET r == CHOOSE x \in rs : TRUE
       IN rounds[r].final_score + SumFinalScore(rs \ {r})

(* C14: complete_round on an active round completes it and adds its        *)
(* final_score to the owner's total_score and to the photo's usage         *)
(* statistics; no round is added more than once, however often            *)
(* complete_round is called for it.                                        *)
C14_CompleteAddsOnce ==
  /\ \A pl \in Players :
       /\ players[pl].games_played <= Cardinality(CompletedOf(pl))
       /\ players[pl].total_score <= SumFinalScore(CompletedOf(pl))
  /\ \A ph \in PhotoIds :
       /\ photo_stats[ph].times_used <= Cardinality(CompletedOn(ph))
       /\ photo_stats[ph].total_score_awarded <= SumFinalScore(CompletedOn(ph))
  /\ \A p \in Procs :
       (c_pc[p] = "done" /\ c_result[p] = "ok" /\ c_obj[p].round[1].status = "active") =>
         /\ rounds[c_req[p].round_id].status = "completed"
         /\ players[c_req[p].player_id].games_played >= 1
         /\ players[c_req[p].player_id].total_score >= c_obj[p].round[1].final_score
         /\ photo_stats[c_obj[p].round[1].photo_id].times_used >= 1

(* C15: each player's games_played is the number of the player's completed *)
(* rounds and total_score is the sum of their final_score.                 *)
C15_StatsMatchCompletedRounds ==
  \A pl \in Players :
    /\ players[pl].games_played = Cardinality(CompletedOf(pl))
    /\ players[pl].total_score = SumFinalScore(CompletedOf(pl))

(* ------------------------ claims: create_challenge --------------------- *)
(* C16: also under interleaved create_challenge calls no digest has more   *)
(* than 10 challenges created in the trailing 15 minutes; the request that *)
(* would create the 11th fails with RateLimitExceeded and creates nothing. *)
C16_AtMostTenPerWindow ==
  /\ \A ip \in ClientIps :
       Cardinality(ChallengesSince(hash_ip(ip), now - Seconds(CHALLENGE_WINDOW_SECONDS)))
         <= CHALLENGE_LIMIT
  /\ \A p \in Procs :
       (i_pc[p] = "done" /\ i_count[p] >= CHALLENGE_LIMIT) =>
         (i_result[p] = "RateLimitExceeded" /\ i_row[p] = <<>>)

(* C17: every challenge a create_challenge call has built takes its        *)
(* difficulty and its TTL from the settings of the request's mode (with    *)
(* the default settings: 4 and 10 s in normal mode, 2 and 30 s in reduced  *)
(* mode), and under every accepted configuration its difficulty lies in    *)
(* 2..6 and expires_at - created_at lies in 5 s .. 120 s.                  *)
C17_DifficultyAndTtlFromMode ==
  \A p \in Procs :
    i_row[p] # <<>> =>
      LET ch == i_row[p][1]
          low_power == i_req[p].low_power
          ttl == ch.expires_at - ch.created_at
      IN /\ ch.difficulty = IF low_power THEN settings.pow_low_power_difficulty
                                         ELSE settings.pow_difficulty
         /\ ttl = Seconds(IF low_power THEN settings.pow_low_power_timeout_seconds
                                       ELSE settings.pow_timeout_seconds)
         /\ settings = DefaultSettings =>
              /\ ch.difficulty = IF low_power THEN 2 ELSE 4
              /\ ttl = Seconds(IF low_power THEN 30 ELSE 10)
         /\ ch.difficulty >= 2 /\ ch.difficulty <= 6
         /\ ttl >= Seconds(5) /\ ttl <= Seconds(120)

(* ------------------------- claims: get_remaining ----------------------- *)
(* a returned tuple (limit, remaining, reset), and the header made of it *)
RemainingInRange(ret) ==
  /\ 0 <= ret[2] /\ ret[2] <= ret[1]
  /\ LET headers == get_rate_limit_headers(ret[1], ret[2], ret[3])
     IN /\ 0 <= StrInt(headers.XRateLimitRemaining)
        /\ StrInt(headers.XRateLimitRemaining) <= StrInt(headers.XRateLimitLimit)

(* C18: every tuple (limit, remaining, reset) that check_rate_limit or     *)
(* get_remaining returns, and the X-RateLimit-Remaining header made of it, *)
(* has 0 <= remaining <= limit, also when the stored request_count is      *)
(* above the limit.                                                        *)
C18_RemainingWithinLimit ==
  \A p \in Procs :
    /\ (rl_pc[p] \in {"flushing", "done"} /\ Len(rl_ret[p]) = 3) => RemainingInRange(rl_ret[p])
    /\ r_pc[p] = "done" => RemainingInRange(r_ret[p])

(* a get_remaining call has returned for a live window whose stored count  *)
(* is above the limit                                                      *)
C18_Witness ==
  \E p \in Procs :
    /\ r_pc[p] = "done"
    /\ r_obj[p] # <<>>
    /\ r_obj[p][1].request_count > rl_limit(r_req[p][2])
    /\ r_ret[p][3] # 0
    /\ r_ret[p][2] = 0

(* a step of a get_remaining request *)
GetRemainingStep == \E p \in Procs : r_pc'[p] # r_pc[p]

(* C19: no step of a get_remaining request, the commit of its session      *)
(* included, changes the table of windows: no window is created, deleted,  *)
(* reset or incremented, also when the key has no window or an expired one *)
C19_GetRemainingReadOnly == [][GetRemainingStep => rate_limits' = rate_limits]_vars

(* one get_remaining call has returned for a key without a window, another *)
(* for a key whose window is expired                                       *)
C19_Witness ==
  \E p, q \in Procs :
    /\ r_pc[p] = "done" /\ r_obj[p] = <<>>
    /\ r_pc[q] = "done" /\ r_obj[q] # <<>>
    /\ r_ret[q] = <<rl_limit(r_req[q][2]), rl_limit(r_req[q][2]), 0>>

C21_FailureAddsAuditEntry ==
  \A p \in Procs :
    (v_pc[p] = "done" /\ v_result[p] # "ok") =>
      /\ v_result[p] \in {"ChallengeNotFound", "ChallengeAlreadyUsed", "ChallengeExpired",
                           "IpMismatch", "InvalidSolution"}
      /\ v_audit[p] # <<>>
      /\ v_audit[p][1].action = <<"pow_failed">>
      /\ v_audit[p][1].ip_hash = <<v_req[p].ip_hash>>

(* the call of p found its key over the limit *)
RlOverLimit(p) ==
  /\ rl_obj[p].entry # <<>>
  /\ OverLimit(rl_obj[p].entry[1].request_count, rl_limit(rl_req[p][2]))

(* C22: every check_rate_limit call that finds its key over the limit      *)
(* fails with RateLimitExceeded after adding a rate_limit_triggered audit  *)
(* entry to its session, and the entry is in the audit table once the      *)
(* failing request has finished.                                           *)
C22_RateLimitAuditRecorded ==
  [][\A p \in Procs :
       (rl_pc[p] = "done" /\ RlOverLimit(p) /\ rl_pc'[p] = "idle") =>
         /\ rl_result[p] = "RateLimitExceeded"
         /\ rl_audit[p] # <<>>
         /\ rl_audit[p][1].action = <<"rate_limit_triggered">>
         /\ rl_audit[p][1] \in audit_log']_vars

(* ------------------------------- C23 ----------------------------------- *)
(* C23: whenever a rate-limit row is deleted, the window the row holds at  *)
(* that moment ended more than the grace period before the clock value of  *)
(* the deletion: window_end + grace < now.                                 *)
C23_CleanupOnlyPastGrace ==
  [][\A k \in DOMAIN rate_limits :
       k \notin DOMAIN rate_limits' =>
         window_end(rate_limits[k]) + Seconds(cleanup_grace_seconds) < now]_vars

(* ------------------------------- C24 ----------------------------------- *)
(* C24: the cutoff of a sweep is the retention period before the clock     *)
(* value the sweep read, and its DELETE removes exactly the challenges     *)
(* whose expires_at is before the cutoff, solved or unsolved; every other  *)
(* challenge stays, with every field unchanged, and the number of removed  *)
(* challenges is returned.                                                 *)
C24_CleanupExactlyOld ==
  [][/\ (pcl_pc = "idle" /\ pcl_pc' = "cutoff") =>
          /\ pcl_cutoff' + Seconds(pow_cleanup_retention_seconds) = now
          /\ challenges' = challenges
     /\ (pcl_pc = "cutoff" /\ pcl_pc' = "done") =>
          /\ DOMAIN challenges' =
               {c \in DOMAIN challenges : challenges[c].expires_at >= pcl_cutoff}
          /\ \A c \in DOMAIN challenges' : challenges'[c] = challenges[c]
          /\ pcl_deleted' = Cardinality(DOMAIN challenges \ DOMAIN challenges')]_vars

(* a sweep has removed one challenge and kept another one *)
C24_Witness ==
  /\ pcl_pc = "done"
  /\ pcl_deleted = 1
  /\ \E c \in DOMAIN challenges : challenges[c].expires_at >= pcl_cutoff

(* ------------------------------- C25 ----------------------------------- *)
IpHashes == {hash_ip(ip) : ip \in ClientIps}

(* C25: every stored challenge, every stored rate-limit entry and every    *)
(* stored audit entry holds a client address only as its SHA-256 digest:   *)
(* the address column is a digest of a client address and no text column   *)
(* holds a raw address.                                                    *)
C25_OnlyHashedAddresses ==
  /\ \A c \in DOMAIN challenges :
       /\ challenges[c].client_ip_hash \in IpHashes
       /\ \A f \in {"challenge_nonce", "client_ip_hash", "solved_nonce"} :
            challenges[c][f] \notin ClientIps
  /\ \A k \in DOMAIN rate_limits :
       /\ k[1] \in IpHashes
       /\ k[1] \notin ClientIps /\ k[2] \notin ClientIps
  /\ \A entry \in audit_log :
       /\ entry.ip_hash \in {<<>>} \cup {<<h>> : h \in IpHashes}
       /\ \A f \in {"action", "actor_type", "actor_id_hash", "target_type",
                    "target_id_hash"} :
            entry[f] \notin {<<ip>> : ip \in ClientIps}

(* both tables hold a row written for a client address *)
C25_Witness ==
  /\ \E c \in DOMAIN challenges : challenges[c].client_ip_hash = hash_ip("192.168.1.1")
  /\ \E k \in DOMAIN rate_limits : k[1] = hash_ip("10.0.0.1")

(* ------------------------------- C26 ----------------------------------- *)
(* C26: a start_round call is refused for lack of photos only when no      *)
(* photo is approved; when a photo is approved the call creates a round on *)
(* an approved photo, and that photo is not among the photos of the        *)
(* player's most recent rounds, as the table holds them when the round is  *)
(* created, whenever an approved photo lies outside those.                 *)
C26_PhotoSelection ==
  [][\A p \in Procs :
       (s_pc[p] = "recent" /\ s_pc'[p] = "done") =>
         /\ s_result'[p] = "NoPhotosAvailable" => ApprovedPhotos = {}
         /\ ApprovedPhotos # {} =>
              /\ s_result'[p] = "ok"
              /\ s_photo'[p][1] \in ApprovedPhotos
              /\ ApprovedPhotos \ RecentPhotoIds(s_req[p]) # {} =>
                   s_photo'[p][1] \notin RecentPhotoIds(s_req[p])]_vars

(* ------------------------------- C27 ----------------------------------- *)
(* the request of p is for an existing round of another player *)
GuessNonOwner(p) ==
  g_pc[p] # "idle" /\ g_obj[p] # <<>> /\ g_obj[p][1].player_id # g_req[p].player_id
CompleteNonOwner(p) ==
  /\ c_pc[p] # "idle" /\ c_obj[p].round # <<>>
  /\ c_obj[p].round[1].player_id # c_req[p].player_id

(* C27: a submit_guess or complete_round request for a round of another    *)
(* player ends with GameRoundNotFound whatever the state of the round, and *)
(* no step of the request changes a row of the rounds, the guesses, the    *)
(* players or the photos, nor the round and the guess in its session.      *)
C27_NonOwnerRoundNotFound ==
  [][\A p \in Procs :
       /\ (g_pc'[p] # g_pc[p] /\ (GuessNonOwner(p) \/ GuessNonOwner(p)')) =>
            /\ UNCHANGED <<rounds, guesses, players, photo_stats>>
            /\ g_pc'[p] = "done" =>
                 /\ g_result'[p] = "GameRoundNotFound"
                 /\ g_guess'[p] = <<>>
                 /\ g_obj'[p][2] = g_obj'[p][1]
       /\ (c_pc'[p] # c_pc[p] /\ (CompleteNonOwner(p) \/ CompleteNonOwner(p)')) =>
            /\ UNCHANGED <<rounds, guesses, players, photo_stats>>
            /\ c_pc'[p] = "done" =>
                 /\ c_result'[p] = "GameRoundNotFound"
                 /\ c_obj'[p].round[2] = c_obj'[p].round[1]
                 /\ c_obj'[p].player = <<>> /\ c_obj'[p].photo = <<>>]_vars

(* a submit_guess and a complete_round request of another player have      *)
(* ended, the first on a round that was completed, the second on a round   *)
(* that had expired                                                        *)
C27_Witness ==
  \E p, q \in Procs :
    /\ GuessNonOwner(p) /\ g_pc[p] = "done" /\ g_obj[p][1].status = "completed"
    /\ CompleteNonOwner(q) /\ c_pc[q] = "done"
    /\ now > c_obj[q].round[1].expires_at

(* ------------------------------- C28 ----------------------------------- *)
(* C28: with both strings lower-cased and trimmed, the aircraft score is   *)
(* 1000 for equal strings, floor(1000 * (shorter / longer) * 0.8) when one *)
(* contains the other, and otherwise, with d the edit distance and         *)
(* s = 1 - d / max(len), 0 if s < 0.5 and floor(1000 * (s - 0.5) * 2 * 0.6)*)
(* if not; it lies in 0..1000 and is 1000 only for equal strings.          *)
C28_AircraftScoreFormula ==
  f_ret # <<>> =>
    LET g == StrStrip(StrLower(f_args[1]))
        a == StrStrip(StrLower(f_args[2]))
        shorter == Min(Len(g), Len(a))
        longer == Max(Len(g), Len(a))
        d == levenshtein_distance(g, a)
    IN /\ f_ret[1] = IF g = a THEN 1000
                     ELSE IF StrIn(g, a) \/ StrIn(a, g)
                     THEN (800 * shorter) \div longer
                     ELSE IF 2 * (longer - d) < longer THEN 0
                     ELSE (600 * (longer - 2 * d)) \div longer
       /\ f_ret[1] \in 0..1000
       /\ f_ret[1] = 1000 => g = a

UploadHasDuplicate(p) ==
  \E id \in DOMAIN photos :
    /\ <<id>> # u_photo[p]
    /\ \/ photos[id].file_hash = u_req[p].file_hash
       \/ /\ photos[id].perceptual_hash # <<>>
          /\ hex_to_hash(photos[id].perceptual_hash[1]) # <<>>
          /\ HammingDistance(hex_to_hash(photos[id].perceptual_hash[1])[1],
                             hex_to_hash(u_req[p].perceptual_hash)[1]) <= 10

(* C30: an upload whose digest equals a stored photo's, or whose           *)
(* perceptual hash is within Hamming distance 10 of a stored one, is       *)
(* refused with PhotoValidationError; no two stored photos have equal      *)
(* digests or perceptual hashes within distance 10 of each other.          *)
C30_DuplicateUploadRejected ==
  /\ \A p \in Procs :
       u_pc[p] = "done" /\ UploadHasDuplicate(p) =>
         u_result[p] = "PhotoValidationError"
  /\ \A a, b \in DOMAIN photos :
       a # b =>
         /\ photos[a].file_hash # photos[b].file_hash
         /\ ~ /\ photos[a].perceptual_hash # <<>>
              /\ photos[b].perceptual_hash # <<>>
              /\ hex_to_hash(photos[a].perceptual_hash[1]) # <<>>
              /\ hex_to_hash(photos[b].perceptual_hash[1]) # <<>>
              /\ HammingDistance(hex_to_hash(photos[a].perceptual_hash[1])[1],
                                 hex_to_hash(photos[b].perceptual_hash[1])[1]) <= 10

(* one upload refused for its digest alone and another, that passed        *)
(* moderation and the digest check, refused for a perceptual hash at       *)
(* distance exactly 10 of a stored one                                     *)
C30_Witness ==
  \E p, q \in Procs :
    /\ p # q
    /\ u_pc[p] = "done" /\ u_req[p].is_safe
    /\ u_result[p] = "PhotoValidationError"
    /\ \E id \in DOMAIN photos : photos[id].file_hash = u_req[p].file_hash
    /\ \A id \in DOMAIN photos :
         photos[id].perceptual_hash # <<>> =>
           ~SimilarHashes(photos[id].perceptual_hash[1], u_req[p].perceptual_hash)
    /\ u_pc[q] = "done" /\ u_req[q].is_safe
    /\ u_result[q] = "PhotoValidationError"
    /\ \A id \in DOMAIN photos : photos[id].file_hash # u_req[q].file_hash
    /\ \E id \in DOMAIN photos :
         /\ photos[id].perceptual_hash # <<>>
         /\ hex_to_hash(photos[id].perceptual_hash[1]) # <<>>
         /\ HammingDistance(hex_to_hash(photos[id].perceptual_hash[1])[1],
                            hex_to_hash(u_req[q].perceptual_hash)[1]) = 10

(* ------------------------------- C31 ----------------------------------- *)
(* C31: a verify_solution call is rejected by the hash check (lines        *)
(* 165-183: the invalid-solution rejection, which raises InvalidSolution   *)
(* or the TypeError of its audit call) only when the hash of the           *)
(* challenge nonce and the submitted nonce lacks the required zeros, also  *)
(* when the challenge expires between the expiry check and the hash check. *)
C31_InvalidOnlyForBadHash ==
  \A p \in Procs :
    (VerifyDone(p) /\ v_result[p] \in {"InvalidSolution", "TypeError"}) =>
      ~SentValidNonce(p)

(* ------------------------------- C32 ----------------------------------- *)
(* the recorded successes of a key that lie in the interval [t, t + W] *)
SucceededWithin(key, t) ==
  {i \in DOMAIN rl_log :
     /\ rl_log[i].key = key
     /\ rl_log[i].from >= t
     /\ rl_log[i].to <= t + Seconds(rl_window_seconds(key[2]))}

(* C32: for every key, at most 2 * K check_rate_limit calls succeed        *)
(* within any time interval whose length is the window W of the key.       *)
C32_AtMostTwiceLimit ==
  \A key \in RlKeys, t \in 0..RlMaxTime :
    Cardinality(SucceededWithin(key, t)) <= 2 * rl_limit(key[2])

(* more than K calls of a key succeeded within one such interval *)
C32_BurstOverLimit ==
  \E key \in RlKeys, t \in 0..RlMaxTime :
    Cardinality(SucceededWithin(key, t)) > rl_limit(key[2])

(* ------------------------------- C33 ----------------------------------- *)
(* the table patterns that are a prefix of the endpoint *)
PrefixPatterns(endpoint) ==
  {i \in DOMAIN RATE_LIMITS :
     /\ Len(RATE_LIMITS[i].pattern) <= Len(endpoint)
     /\ \A k \in 1..Len(RATE_LIMITS[i].pattern) : endpoint[k] = RATE_LIMITS[i].pattern[k]}

(* C33: get_rate_limit returns the limits of the table entry equal to the  *)
(* endpoint if there is one, otherwise those of the longest table pattern  *)
(* that is a prefix of the endpoint, otherwise the default (100, 60).      *)
C33_LongestPrefixLimits ==
  f_ret # <<>> =>
    LET prefixes == PrefixPatterns(f_args)
    IN IF \E i \in DOMAIN RATE_LIMITS : RATE_LIMITS[i].pattern = f_args
       THEN \E i \in DOMAIN RATE_LIMITS :
              RATE_LIMITS[i].pattern = f_args /\ f_ret[1] = RATE_LIMITS[i].limits
       ELSE IF prefixes # {}
       THEN \E i \in prefixes :
              /\ \A j \in prefixes : Len(RATE_LIMITS[j].pattern) <= Len(RATE_LIMITS[i].pattern)
              /\ f_ret[1] = RATE_LIMITS[i].limits
       ELSE f_ret[1] = <<100, 60>>

(* a lookup of an endpoint that is no table entry and has two table        *)
(* patterns of different lengths as prefixes                               *)
C33_Witness ==
  /\ f_ret # <<>>
  /\ \A i \in DOMAIN RATE_LIMITS : RATE_LIMITS[i].pattern # f_args
  /\ \E i, j \in PrefixPatterns(f_args) :
       Len(RATE_LIMITS[i].pattern) < Len(RATE_LIMITS[j].pattern)

(* ------------------------------- C34 ----------------------------------- *)
(* C34: a guess takes effect only after check_rate_limit has counted the   *)
(* request, so whenever the table guesses holds a row the table of rate    *)
(* limit entries holds an entry of the endpoint of the guesses.            *)
C34_GuessesCounted ==
  guesses # <<>> =>
    \E key \in DOMAIN rate_limits : key[2] = "/game/guess"

(* ------------------------------- C35 ----------------------------------- *)
(* the committed Guess rows of round r that reached the round's            *)
(* aircraft_score                                                          *)
ReachedBest(r) == {i \in GuessesOf(r) : guesses[i].aircraft_score = rounds[r].aircraft_score}

(* C35: best_aircraft_guess and the best location of a round change only   *)
(* in a step that raises the score of that field, and whenever             *)
(* aircraft_score > 0 best_aircraft_guess is the text of the earliest      *)
(* guess that reached that score.                                          *)
C35_BestOnlyOnStrictlyBetter ==
  /\ [][\A r \in DOMAIN rounds :
          /\ rounds'[r].best_aircraft_guess # rounds[r].best_aircraft_guess =>
                rounds'[r].aircraft_score > rounds[r].aircraft_score
          /\ (\/ rounds'[r].best_location_lat # rounds[r].best_location_lat
              \/ rounds'[r].best_location_lon # rounds[r].best_location_lon) =>
                rounds'[r].location_score > rounds[r].location_score]_vars
  /\ [](\A r \in DOMAIN rounds :
          rounds[r].aircraft_score > 0 =>
            /\ ReachedBest(r) # {}
            /\ \E i \in ReachedBest(r) :
                 /\ \A j \in ReachedBest(r) : i <= j
                 /\ rounds[r].best_aircraft_guess = guesses[i].aircraft_guess)

(* ------------------------ profanity_filter ----------------------------- *)
(* LEETSPEAK_MAP *)
LEETSPEAK_MAP == [c \in {"0", "1", "3", "4", "5", "7", "8", "@", "$", "!"} |-> CASE c = "0" -> "o" [] c = "1" -> "i" [] c = "3" -> "e" [] c = "4" -> "a" [] c = "5" -> "s" [] c = "7" -> "t" [] c = "8" -> "b" [] c = "@" -> "a" [] c = "$" -> "s" [] OTHER -> "i"]

(* re.sub(r"(.)\1{2,}", r"\1\1", s): a run of three or more equal           *)
(* characters is cut to two                                                 *)
RECURSIVE CollapseRepeats(_, _)
CollapseRepeats(s, acc) ==
  IF s = <<>> THEN acc
  ELSE IF Len(acc) >= 2 /\ acc[Len(acc)] = s[1] /\ acc[Len(acc) - 1] = s[1]
       THEN CollapseRepeats(Tail(s), acc)
       ELSE CollapseRepeats(Tail(s), Append(acc, s[1]))

(* _normalize_text *)
normalize_text(text) ==
  LET lowered == StrLower(text)
      replaced == [i \in 1..Len(lowered) |->
                     IF lowered[i] \in DOMAIN LEETSPEAK_MAP
                     THEN LEETSPEAK_MAP[lowered[i]] ELSE lowered[i]]
  IN CollapseRepeats(replaced, <<>>)

IsLetter(c) == \E i \in 1..26 : c = Uppers[i] \/ c = Lowers[i]
IsAlnum(c) == IsLetter(c) \/ \E i \in 1..10 : c = Digits[i]

(* the maximal non-empty runs of characters of s that satisfy Class *)
Runs(s, Class(_)) ==
  {SubSeq(s, i, j) : <<i, j>> \in
     {ij \in (1..Len(s)) \X (1..Len(s)) :
        /\ ij[1] <= ij[2]
        /\ \A k \in ij[1]..ij[2] : Class(s[k])
        /\ (ij[1] = 1 \/ ~Class(s[ij[1] - 1]))
        /\ (ij[2] = Len(s) \/ ~Class(s[ij[2] + 1]))}}

RECURSIVE LettersOnly(_)
LettersOnly(s) ==
  IF s = <<>> THEN <<>>
  ELSE IF IsLetter(s[1]) THEN <<s[1]>> \o LettersOnly(Tail(s)) ELSE LettersOnly(Tail(s))

(* _extract_words, as the set of the words of the returned list *)
extract_words(text) ==
  (Runs(text, IsAlnum) \cup {LettersOnly(text)} \cup Runs(text, IsLetter)) \ {<<>>}

(* the body of contains_profanity, evaluated on the word list words *)
contains_profanity(text, words) ==
  IF text = <<>> THEN FALSE
  ELSE LET normalized == normalize_text(text)
       IN \/ \E word \in words : StrIn(word, normalized)
          \/ \E word \in extract_words(normalized) : normalize_text(word) \in words

(* the texts, words and word-list files of the calls *)
FilterChars == {"a", "4", "_"}
FilterTexts == UNION {[1..n -> FilterChars] : n \in 0..MaxTextLen}
FilterWordArgs == {<<"a">>, <<"A">>, <<"a", "a">>}
FilterFileLines == {<<"a">>, <<" ", "A", "a">>, <<" ">>}
FilterFiles == {<<>>} \cup {<<lines>> : lines \in SUBSET FilterFileLines}

CacheHit(text) == \E entry \in contains_profanity_cache : entry[1] = text

(* a call of the lru_cache wrapper of contains_profanity: a cached result   *)
(* is returned without running the body; otherwise the body runs on the     *)
(* current PROFANITY_WORDS and its result is cached (maxsize 1024 is never  *)
(* reached within MaxFilterCalls calls, so nothing is evicted)              *)
ContainsProfanity(text) ==
  /\ filter_calls < MaxFilterCalls
  /\ filter_calls' = filter_calls + 1
  /\ f_args' = <<"contains_profanity", text>>
  /\ IF CacheHit(text)
     THEN /\ f_ret' = <<(CHOOSE entry \in contains_profanity_cache : entry[1] = text)[2]>>
          /\ UNCHANGED contains_profanity_cache
     ELSE /\ f_ret' = <<contains_profanity(text, PROFANITY_WORDS.words)>>
          /\ contains_profanity_cache' =
               contains_profanity_cache \cup {<<text, contains_profanity(text, PROFANITY_WORDS.words)>>}
  /\ UNCHANGED <<now, PROFANITY_WORDS, pow_vars, rl_vars, game_vars, stat_vars, issue_vars>>

(* load_profanity_list(file_path): file is <<>> for a path that does not    *)
(* exist, otherwise <<the set of the file's lines>>                         *)
LoadProfanityList(file) ==
  /\ filter_calls < MaxFilterCalls
  /\ filter_calls' = filter_calls + 1
  /\ f_args' = <<"load_profanity_list", file>>
  /\ f_ret' = <<"None">>
  /\ PROFANITY_WORDS' =
       IF file = <<>> THEN PROFANITY_WORDS
       ELSE [kind |-> "set",
             words |-> {StrLower(LStrip(RStrip(line))) : line \in {l \in file[1] : LStrip(RStrip(l)) # <<>>}}]
  /\ UNCHANGED <<now, contains_profanity_cache, pow_vars, rl_vars, game_vars, stat_vars, issue_vars>>

(* add_profanity_word(word): a dict has no method add *)
AddProfanityWord(word) ==
  /\ filter_calls < MaxFilterCalls
  /\ filter_calls' = filter_calls + 1
  /\ f_args' = <<"add_profanity_word", word>>
  /\ IF PROFANITY_WORDS.kind = "set"
     THEN /\ PROFANITY_WORDS' = [PROFANITY_WORDS EXCEPT !.words = @ \cup {StrLower(word)}]
          /\ contains_profanity_cache' = {}
          /\ f_ret' = <<"None">>
     ELSE /\ f_ret' = <<"AttributeError">>
          /\ UNCHANGED <<PROFANITY_WORDS, contains_profanity_cache>>
  /\ UNCHANGED <<now, pow_vars, rl_vars, game_vars, stat_vars, issue_vars>>

(* remove_profanity_word(word): a dict has no method discard *)
RemoveProfanityWord(word) ==
  /\ filter_calls < MaxFilterCalls
  /\ filter_calls' = filter_calls + 1
  /\ f_args' = <<"remove_profanity_word", word>>
  /\ IF PROFANITY_WORDS.kind = "set"
     THEN /\ PROFANITY_WORDS' = [PROFANITY_WORDS EXCEPT !.words = @ \ {StrLower(word)}]
          /\ contains_profanity_cache' = {}
          /\ f_ret' = <<"None">>
     ELSE /\ f_ret' = <<"AttributeError">>
          /\ UNCHANGED <<PROFANITY_WORDS, contains_profanity_cache>>
  /\ UNCHANGED <<now, pow_vars, rl_vars, game_vars, stat_vars, issue_vars>>

InitFilter == now = 0 /\ PowIdle /\ RlIdle /\ GameIdle /\ StatIdle /\ IssueIdle /\ FnIdle

NextFilter ==
  \/ \E text \in FilterTexts : ContainsProfanity(text)
  \/ \E file \in FilterFiles : LoadProfanityList(file)
  \/ \E word \in FilterWordArgs : AddProfanityWord(word)
  \/ \E word \in FilterWordArgs : RemoveProfanityWord(word)

SpecFilter == InitFilter /\ [][NextFilter]_vars

(* ------------------------------- C36 ----------------------------------- *)
(* C36: every result that contains_profanity returns is the one its body    *)
(* gives on the current word list; no result cached under an earlier list   *)
(* is returned.                                                             *)
C36_AnswersCurrentList ==
  (f_args # <<>> /\ f_args[1] = "contains_profanity") =>
    f_ret[1] = contains_profanity(f_args[2], PROFANITY_WORDS.words)

(* ----------------- specification: _levenshtein_distance ---------------- *)
LevChars == {"a", "b"}
LevStrings == UNION {[1..n -> LevChars] : n \in 0..MaxLevLen}

InitLevenshtein ==
  /\ now = 0
  /\ PowIdle /\ RlIdle /\ GameIdle /\ StatIdle /\ IssueIdle
  /\ f_args \in LevStrings \X LevStrings
  /\ f_ret = <<>>
  /\ FilterIdle

(* the call _levenshtein_distance(s1, s2) *)
LevenshteinDistance ==
  /\ f_ret = <<>>
  /\ f_ret' = <<levenshtein_distance(f_args[1], f_args[2])>>
  /\ UNCHANGED <<now, f_args, filter_vars, pow_vars, rl_vars, game_vars, stat_vars, issue_vars>>

NextLevenshtein == LevenshteinDistance

SpecLevenshtein == InitLevenshtein /\ [][NextLevenshtein]_vars

(* ------------------------------- C37 ----------------------------------- *)
(* the strings one single-character insertion, deletion or substitution     *)
(* away from s                                                              *)
SingleEdits(s) ==
  {SubSeq(s, 1, i) \o <<c>> \o SubSeq(s, i + 1, Len(s)) : <<i, c>> \in (0..Len(s)) \X LevChars}
  \cup {SubSeq(s, 1, i - 1) \o SubSeq(s, i + 1, Len(s)) : i \in 1..Len(s)}
  \cup {[s EXCEPT ![i] = c] : <<i, c>> \in (1..Len(s)) \X LevChars}

(* the least number of edits that turn a string of the set reached into    *)
(* target, k edits having led to reached; a shortest edit sequence never    *)
(* passes a string longer than the longer of its two ends                   *)
RECURSIVE EditsFrom(_, _, _, _)
EditsFrom(reached, target, k, max_len) ==
  IF target \in reached THEN k
  ELSE EditsFrom(reached \cup {t \in UNION {SingleEdits(s) : s \in reached} : Len(t) <= max_len},
                 target, k + 1, max_len)

MinEdits(s1, s2) == EditsFrom({s1}, s2, 0, Max(Len(s1), Len(s2)))

(* C37: _levenshtein_distance(s1, s2) is the minimum number of             *)
(* single-character insertions, deletions and substitutions that turn s1    *)
(* into s2, also for empty strings, and is the same with the arguments      *)
(* swapped.                                                                 *)
C37_LevenshteinIsEditDistance ==
  f_ret # <<>> =>
    /\ f_ret[1] = MinEdits(f_args[1], f_args[2])
    /\ f_ret[1] = levenshtein_distance(f_args[2], f_args[1])

(* a shorter first argument (the swapped call) that needs a substitution    *)
(* besides the insertions                                                   *)
C37_Witness ==
  /\ f_ret # <<>>
  /\ f_args[1] # <<>>
  /\ Len(f_args[1]) < Len(f_args[2])
  /\ f_ret[1] > Len(f_args[2]) - Len(f_args[1])

(* ------------------------------- C38 ----------------------------------- *)
(* the call of p started after a call for the same challenge had failed,   *)
(* carries a nonce satisfying the hash rule, comes from the digest the     *)
(* challenge was issued to and found it unsolved and unexpired             *)
CorrectAfterFailure(p) ==
  /\ SawChallenge(p)
  /\ v_req[p].after_failure
  /\ SentValidNonce(p)
  /\ ~SawOtherDigest(p) /\ ~SawSolved(p) /\ ~SawExpired(p)

(* C38: solved_nonce, solved_at and expires_at of a challenge change only  *)
(* in a step of a verify_solution call that succeeds, never in a call that *)
(* fails, and a call that follows a failed call for the challenge, comes   *)
(* from the issuing digest with a nonce satisfying the hash rule and has   *)
(* passed the checks of lines 126-163 succeeds at the hash check when that *)
(* check too reads a clock not after expires_at.                           *)
C38_FailureLeavesChallenge ==
  /\ [][\A c \in DOMAIN challenges :
          (\/ c \notin DOMAIN challenges'
           \/ challenges'[c].solved_nonce # challenges[c].solved_nonce
           \/ challenges'[c].solved_at # challenges[c].solved_at
           \/ challenges'[c].expires_at # challenges[c].expires_at)
            => \E p \in Procs :
                 /\ v_pc'[p] # v_pc[p]
                 /\ v_req[p].challenge_id = c
                 /\ v_result'[p] = "ok"]_vars
  /\ [][\A p \in Procs :
          (/\ v_pc[p] = "checked" /\ v_pc'[p] # "checked"
           /\ v_req[p].after_failure
           /\ verify_pow_hash(v_obj[p][1].challenge_nonce, v_req[p].solution_nonce,
                              v_obj[p][1].difficulty)
           /\ ~is_expired(v_obj[p][1], now))
            => v_result'[p] = "ok"]_vars
  /\ [](\A p \in Procs :
          (CorrectAfterFailure(p) /\ v_result[p] = "ok" /\ v_pc[p] = "done") =>
            is_solved(challenges[v_req[p].challenge_id]))

(* a correct submission after a failed call for the same challenge has     *)
(* succeeded                                                               *)
C38_Witness == \E p \in Procs : CorrectAfterFailure(p) /\ v_result[p] = "ok"

(* ------------------------------- C39 ----------------------------------- *)
(* the finished calls of p and q were both rejected for the same key in    *)
(* the same window, p's not after q's                                      *)
RejectedInOrder(p, q) ==
  /\ RlDone(p) /\ RlDone(q)
  /\ RlOverLimit(p) /\ RlOverLimit(q)
  /\ rl_req[p] = rl_req[q]
  /\ rl_obj[p].entry[1].window_start = rl_obj[q].entry[1].window_start
  /\ rl_now[p] <= rl_now[q]

PassedUpload(p) ==
  /\ u_pc[p] = "done"
  /\ u_req[p].is_safe /\ u_req[p].confidence = PassConfidence
  /\ u_result[p] # "PhotoValidationError"

(* C40: an upload whose moderation result is "passed all checks" is stored *)
(* by the upload call with status approved, the status of the pool that    *)
(* _select_random_photo selects from.                                      *)
C40_PassedUploadApproved ==
  \A p \in Procs :
    PassedUpload(p) =>
      /\ AutoApproved(u_req[p].confidence)
      /\ u_result[p] = "ok"
      /\ u_photo[p] # <<>>
      /\ photos[u_photo[p][1]].status = "approved"

====
